---- MODULE Spec2Model ----
(***************************************************************************)
(* A model of the spoken-dialogue session orchestrator of                  *)
(* kayako-ai-call-agent: handleMediaStream / setupRecognitionStreamHandler *)
(* (src/src/telephony/twilioHandler.ts, lines 1-780), the reply generator  *)
(* ResponseGenerator.generateResponse (src/src/services/                   *)
(* responseGenerator.ts, lines 1-448) and ConversationManager.             *)
(*                                                                         *)
(* Text is a sequence of one-character strings, so that trim, toLowerCase, *)
(* includes, startsWith, slice and the regular expressions of the source   *)
(* are computed character by character, as the code computes them.         *)
(* Time is in milliseconds; Date.now() is the variable clock.              *)
(* One action is one synchronous run of JavaScript between two awaits.     *)
(***************************************************************************)
EXTENDS Integers, Sequences, FiniteSets, TLC

(***************************************************************************)
(* String primitives of JavaScript                                         *)
(***************************************************************************)
UpperChars == <<"A","B","C","D","E","F","G","H","I","J","K","L","M","N","O","P","Q","R","S","T","U","V","W","X","Y","Z">>
LowerChars == <<"a","b","c","d","e","f","g","h","i","j","k","l","m","n","o","p","q","r","s","t","u","v","w","x","y","z">>
DigitChars == <<"0","1","2","3","4","5","6","7","8","9">>

Range(s) == {s[i] : i \in 1..Len(s)}

WordChars == Range(UpperChars) \cup Range(LowerChars) \cup Range(DigitChars) \cup {"_"}

\* the lower-case letter of each upper-case letter
LowerOf == [c \in Range(UpperChars) |-> LowerChars[CHOOSE i \in 1..Len(UpperChars) : UpperChars[i] = c]]

\* \s of a JavaScript regular expression and of String.prototype.trim
IsSpace(c) == c \in {" ", "\t", "\n", "\r"}

\* \w of a JavaScript regular expression
IsWordChar(c) == c \in WordChars

\* the terminators of the class [.!?]
IsTerminator(c) == c \in {".", "!", "?"}

LowerChar(c) == IF c \in DOMAIN LowerOf THEN LowerOf[c] ELSE c

\* String.prototype.toLowerCase
toLowerCase(s) == [i \in 1..Len(s) |-> LowerChar(s[i])]

\* String.prototype.trim: white space is dropped from both ends
RECURSIVE trimStart(_)
trimStart(s) == IF s # <<>> /\ IsSpace(s[1]) THEN trimStart(Tail(s)) ELSE s

RECURSIVE trimEnd(_)
trimEnd(s) == IF s # <<>> /\ IsSpace(s[Len(s)]) THEN trimEnd(SubSeq(s, 1, Len(s) - 1)) ELSE s

trim(s) == trimEnd(trimStart(s))

\* String.prototype.slice(start), start a 0-based index in 0..length
slice(s, start) == SubSeq(s, start + 1, Len(s))

\* String.prototype.startsWith
startsWith(s, p) == Len(p) <= Len(s) /\ \A j \in 1..Len(p) : s[j] = p[j]

\* String.prototype.includes
includes(s, p) == \E i \in 1..(Len(s) - Len(p) + 1) : \A j \in 1..Len(p) : s[i + j - 1] = p[j]

\* /^(w1|w2|...)\b/ : one of the words is a prefix and a word boundary follows it
MatchesLeadingWord(s, words) ==
    \E w \in words :
        /\ startsWith(s, w)
        /\ IsWordChar(w[Len(w)])
        /\ (Len(s) = Len(w) \/ ~IsWordChar(s[Len(w) + 1]))

\* /[.!?]$/.test(s)
EndsWithTerminator(s) == Len(s) > 0 /\ IsTerminator(s[Len(s)])

\* s.split(/\s+/).length for a trimmed, non-empty s: one more than the number of whitespace runs
WordCount(s) == 1 + Cardinality({i \in 2..Len(s) : IsSpace(s[i]) /\ ~IsSpace(s[i-1])})

\* s.match(/[^.!?]+[.!?]+/g) || [] : the greedy, left-to-right, non-overlapping
\* matches; each is a maximal run of non-terminators followed by a maximal run
\* of terminators. SentencesFrom scans from position i (1-based).
RECURSIVE SentencesFrom(_, _)
SentencesFrom(s, i) ==
    IF i > Len(s) THEN <<>>
    ELSE IF IsTerminator(s[i]) THEN SentencesFrom(s, i + 1)
    ELSE LET ts == {j \in i..Len(s) : IsTerminator(s[j])}
         IN IF ts = {} THEN <<>>
            ELSE LET t == CHOOSE j \in ts : \A k \in ts : j <= k
                     nonT == {j \in t..Len(s) : ~IsTerminator(s[j])}
                     e == IF nonT = {} THEN Len(s)
                          ELSE (CHOOSE j \in nonT : \A k \in nonT : j <= k) - 1
                 IN <<SubSeq(s, i, e)>> \o SentencesFrom(s, e + 1)

MatchSentences(s) == SentencesFrom(s, 1)

\* Array.prototype.join(' ')
RECURSIVE JoinWithSpace(_)
JoinWithSpace(parts) ==
    IF parts = <<>> THEN <<>>
    ELSE IF Len(parts) = 1 THEN parts[1]
    ELSE parts[1] \o <<" ">> \o JoinWithSpace(Tail(parts))

(***************************************************************************)
(* twilioHandler.ts: the heuristics on text                                *)
(***************************************************************************)
QuestionStems == {<<"h","o","w">>, <<"w","h","a","t">>, <<"w","h","y">>, <<"c","a","n">>, <<"c","o","u","l","d">>}

pausePatterns == {<<"p","l","e","a","s","e">>, <<"t","h","a","n","k"," ","y","o","u">>, <<"h","e","l","p"," ","m","e">>, <<"n","e","e","d"," ","h","e","l","p">>, <<"c","a","n"," ","y","o","u">>, <<"w","o","u","l","d"," ","y","o","u">>}

\* the length floor of isCompleteSentence
MinCompleteLength == 10

isCompleteSentence(text) ==
    LET trimmed == toLowerCase(trim(text))
    IN IF Len(trimmed) < MinCompleteLength THEN FALSE
       ELSE IF EndsWithTerminator(trimmed) THEN TRUE
       ELSE IF \E stem \in QuestionStems : startsWith(trimmed, stem) THEN TRUE
       ELSE \E pattern \in pausePatterns : includes(trimmed, pattern)

goodbyePhrases ==
    {<<"g","o","o","d","b","y","e">>, <<"b","y","e">>, <<"t","h","a","n","k"," ","y","o","u">>, <<"t","h","a","n","k","s">>, <<"t","h","a","t","'","s"," ","a","l","l">>, <<"t","h","a","t"," ","i","s"," ","a","l","l">>,
     <<"t","h","a","t","'","s"," ","i","t">>, <<"t","h","a","t"," ","w","i","l","l"," ","b","e"," ","a","l","l">>, <<"h","a","v","e"," ","a"," ","g","o","o","d"," ","d","a","y">>, <<"e","n","d"," ","t","h","e"," ","c","a","l","l">>}

continuationCues == {<<"q","u","e","s","t","i","o","n">>, <<"h","e","l","p">>, <<"a","n","o","t","h","e","r">>}

isGoodbyeMessage_NoCueTest(text) ==
    LET normalizedText == trim(toLowerCase(text))
    IN \E phrase \in goodbyePhrases : includes(normalizedText, phrase)

isGoodbyeMessage(text) ==
    LET normalizedText == trim(toLowerCase(text))
    IN /\ \E phrase \in goodbyePhrases : includes(normalizedText, phrase)
       /\ \A cue \in continuationCues : ~includes(normalizedText, cue)

\* /^(um|uh|okay|oh)\b/i on an interim transcription
InterimFillers == {<<"u","m">>, <<"u","h">>, <<"o","k","a","y">>, <<"o","h">>}

\* /^(um|uh|like|so|and|but|okay)\b/i on a final transcription
FinalFillers == {<<"u","m">>, <<"u","h">>, <<"l","i","k","e">>, <<"s","o">>, <<"a","n","d">>, <<"b","u","t">>, <<"o","k","a","y">>}

SoftInterruptionMinLength == 8
RealInterruptionMinLength == 15
InterruptionGraceMs == 1500
CooldownMs == 400
SilenceThresholdMs == 600
FirstChunkMinLength == 15
ChunkSpacingMs == 500
ACKNOWLEDGMENT_DELAY == 2000
EstablishedContextLength == 2

\* the test of the interim branch, without isProcessingResponse
IsSoftInterruptionText(transcription) ==
    /\ Len(trim(transcription)) > SoftInterruptionMinLength
    /\ ~MatchesLeadingWord(toLowerCase(transcription), InterimFillers)

\* isRealInterruption
isRealInterruption(transcription, dateNow, lastResponse) ==
    /\ Len(trim(transcription)) > RealInterruptionMinLength
    /\ ~includes(toLowerCase(transcription), <<"t","h","a","n","k">>)
    /\ ~MatchesLeadingWord(toLowerCase(transcription), FinalFillers)
    /\ dateNow - lastResponse > InterruptionGraceMs

UnrelatedKeywords ==
    {<<"w","e","a","t","h","e","r">>, <<"s","t","o","c","k">>, <<"b","i","t","c","o","i","n">>, <<"c","r","y","p","t","o">>, <<"s","p","o","r","t","s">>, <<"g","a","m","e">>, <<"m","o","v","i","e">>,
     <<"f","o","o","d">>, <<"r","e","s","t","a","u","r","a","n","t">>, <<"p","i","z","z","a">>, <<"u","b","e","r">>, <<"l","y","f","t">>, <<"t","a","x","i">>}

isObviouslyUnrelated(finalTranscript) ==
    \E k \in UnrelatedKeywords : includes(toLowerCase(finalTranscript), k)

goodbyeResponse == <<"T","h","a","n","k"," ","y","o","u"," ","f","o","r"," ","c","a","l","l","i","n","g"," ","K","a","y","a","k","o"," ","s","u","p","p","o","r","t","!"," ","H","a","v","e"," ","a"," ","g","r","e","a","t"," ","d","a","y","!">>
greeting == <<"H","i","!"," ","H","o","w"," ","c","a","n"," ","I"," ","h","e","l","p"," ","y","o","u"," ","t","o","d","a","y","?">>
fillerText == <<"O","n","e"," ","m","o","m","e","n","t",".">>
redirectText == <<"I","'","m"," ","s","p","e","c","i","f","i","c","a","l","l","y"," ","t","r","a","i","n","e","d"," ","t","o"," ","h","e","l","p"," ","w","i","t","h"," ","K","a","y","a","k","o","'","s"," ","c","u","s","t","o","m","e","r"," ","s","u","p","p","o","r","t"," ","p","l","a","t","f","o","r","m","."," ","I"," ","n","o","t","i","c","e","d"," ","y","o","u"," ","m","i","g","h","t"," ","b","e"," ","a","s","k","i","n","g"," ","a","b","o","u","t"," ","s","o","m","e","t","h","i","n","g"," ","e","l","s","e","."," ","W","o","u","l","d"," ","y","o","u"," ","l","i","k","e"," ","t","o"," ","k","n","o","w"," ","a","b","o","u","t"," ","K","a","y","a","k","o","'","s"," ","f","e","a","t","u","r","e","s"," ","o","r"," ","c","a","p","a","b","i","l","i","t","i","e","s"," ","i","n","s","t","e","a","d","?">>
recoveryText == <<"I","'","m"," ","h","e","r","e"," ","t","o"," ","h","e","l","p"," ","w","i","t","h"," ","q","u","e","s","t","i","o","n","s"," ","a","b","o","u","t"," ","K","a","y","a","k","o","."," ","W","h","a","t"," ","w","o","u","l","d"," ","y","o","u"," ","l","i","k","e"," ","t","o"," ","k","n","o","w"," ","a","b","o","u","t"," ","o","u","r"," ","c","u","s","t","o","m","e","r"," ","s","u","p","p","o","r","t"," ","p","l","a","t","f","o","r","m","?">>
repeatText == <<"I"," ","a","p","o","l","o","g","i","z","e",","," ","c","o","u","l","d"," ","y","o","u"," ","p","l","e","a","s","e"," ","r","e","p","e","a","t"," ","y","o","u","r"," ","q","u","e","s","t","i","o","n","?">>

(***************************************************************************)
(* responseGenerator.ts: the paths of generateResponse that answer without *)
(* the generator                                                           *)
(***************************************************************************)
conversationalResponses ==
    << <<<<"i"," ","h","a","v","e"," ","m","o","r","e"," ","q","u","e","s","t","i","o","n","s">>, <<"O","f"," ","c","o","u","r","s","e",","," ","I","'","m"," ","h","a","p","p","y"," ","t","o"," ","h","e","l","p","."," ","W","h","a","t"," ","w","o","u","l","d"," ","y","o","u"," ","l","i","k","e"," ","t","o"," ","k","n","o","w","?">>>>,
       <<<<"c","a","n"," ","i"," ","a","s","k"," ","a","n","o","t","h","e","r"," ","q","u","e","s","t","i","o","n">>, <<"A","b","s","o","l","u","t","e","l","y",","," ","g","o"," ","a","h","e","a","d","!">>>>,
       <<<<"i","s"," ","t","h","a","t"," ","o","k">>, <<"Y","e","s",","," ","o","f"," ","c","o","u","r","s","e","!">>>>,
       <<<<"d","o"," ","y","o","u"," ","u","n","d","e","r","s","t","a","n","d">>, <<"Y","e","s",","," ","I"," ","u","n","d","e","r","s","t","a","n","d","."," ","P","l","e","a","s","e"," ","c","o","n","t","i","n","u","e",".">>>>,
       <<<<"a","r","e"," ","y","o","u"," ","t","h","e","r","e">>, <<"Y","e","s",","," ","I","'","m"," ","h","e","r","e"," ","a","n","d"," ","r","e","a","d","y"," ","t","o"," ","h","e","l","p",".">>>>,
       <<<<"c","a","n"," ","y","o","u"," ","h","e","l","p">>, <<"Y","e","s",","," ","I","'","d"," ","b","e"," ","h","a","p","p","y"," ","t","o"," ","h","e","l","p",".">>>>,
       <<<<"t","h","a","n","k"," ","y","o","u">>, <<"Y","o","u","'","r","e"," ","w","e","l","c","o","m","e","!">>>>,
       <<<<"t","h","a","n","k","s">>, <<"Y","o","u","'","r","e"," ","w","e","l","c","o","m","e","!">>>>,
       <<<<"o","k">>, <<"W","h","a","t"," ","w","o","u","l","d"," ","y","o","u"," ","l","i","k","e"," ","t","o"," ","k","n","o","w","?">>>>,
       <<<<"a","l","r","i","g","h","t">>, <<"W","h","a","t"," ","w","o","u","l","d"," ","y","o","u"," ","l","i","k","e"," ","t","o"," ","k","n","o","w","?">>>>,
       <<<<"i"," ","s","e","e">>, <<"W","h","a","t"," ","e","l","s","e"," ","w","o","u","l","d"," ","y","o","u"," ","l","i","k","e"," ","t","o"," ","k","n","o","w","?">>>>,
       <<<<"i","n","t","e","r","e","s","t","i","n","g">>, <<"W","h","a","t"," ","e","l","s","e"," ","w","o","u","l","d"," ","y","o","u"," ","l","i","k","e"," ","t","o"," ","k","n","o","w","?">>>>,
       <<<<"g","o","t"," ","i","t">>, <<"W","h","a","t"," ","e","l","s","e"," ","w","o","u","l","d"," ","y","o","u"," ","l","i","k","e"," ","t","o"," ","k","n","o","w","?">>>> >>

NoText == <<"\n", "null">>

\* the value of the first entry of a table (a sequence of pairs) among the
\* entries, given by their indices, whose key matched
FirstHit(table, hits) ==
    IF hits = {} THEN NoText
    ELSE table[CHOOSE i \in hits : \A j \in hits : i <= j][2]

ConversationalPartialMaxLength == 20

checkConversationalResponse(query) ==
    LET normalizedQuery == trim(toLowerCase(query))
        entries == 1..Len(conversationalResponses)
        Exact == {i \in entries : conversationalResponses[i][1] = normalizedQuery}
        Partial == {i \in entries :
                       /\ includes(normalizedQuery, conversationalResponses[i][1])
                       /\ 2 * Len(conversationalResponses[i][1]) > Len(normalizedQuery)}
    IN IF Exact # {}
       THEN FirstHit(conversationalResponses, Exact)
       ELSE IF Len(normalizedQuery) < ConversationalPartialMaxLength
               /\ ~includes(normalizedQuery, <<"k","a","y","a","k","o">>)
       THEN FirstHit(conversationalResponses, Partial)
       ELSE NoText

commonQAs ==
    << <<{<<"r","e","s","e","t"," ","p","a","s","s","w","o","r","d">>, <<"f","o","r","g","o","t"," ","p","a","s","s","w","o","r","d">>, <<"c","h","a","n","g","e"," ","p","a","s","s","w","o","r","d">>, <<"p","a","s","s","w","o","r","d"," ","r","e","s","e","t">>, <<"c","a","n","t"," ","l","o","g","i","n">>},
         <<"I"," ","c","a","n"," ","h","e","l","p"," ","y","o","u"," ","r","e","s","e","t"," ","y","o","u","r"," ","p","a","s","s","w","o","r","d","."," ","T","o"," ","d","o"," ","t","h","i","s",","," ","p","l","e","a","s","e"," ","v","i","s","i","t"," ","t","h","e"," ","l","o","g","i","n"," ","p","a","g","e"," ","a","n","d"," ","c","l","i","c","k"," ","o","n"," ","'","F","o","r","g","o","t"," ","P","a","s","s","w","o","r","d","'","."," ","Y","o","u","'","l","l"," ","r","e","c","e","i","v","e"," ","a","n"," ","e","m","a","i","l"," ","w","i","t","h"," ","r","e","s","e","t"," ","i","n","s","t","r","u","c","t","i","o","n","s","."," ","W","o","u","l","d"," ","y","o","u"," ","l","i","k","e"," ","m","e"," ","t","o"," ","s","e","n","d"," ","y","o","u"," ","t","h","e"," ","r","e","s","e","t"," ","l","i","n","k"," ","n","o","w","?">>>>,
       <<{<<"w","h","a","t"," ","i","s"," ","k","a","y","a","k","o">>, <<"t","e","l","l"," ","m","e"," ","a","b","o","u","t"," ","k","a","y","a","k","o">>, <<"k","a","y","a","k","o"," ","f","e","a","t","u","r","e","s">>, <<"k","a","y","a","k","o"," ","p","r","o","d","u","c","t">>},
         <<"K","a","y","a","k","o"," ","i","s"," ","a"," ","c","o","m","p","r","e","h","e","n","s","i","v","e"," ","c","u","s","t","o","m","e","r"," ","s","e","r","v","i","c","e"," ","p","l","a","t","f","o","r","m"," ","t","h","a","t"," ","o","f","f","e","r","s"," ","h","e","l","p"," ","d","e","s","k"," ","s","o","l","u","t","i","o","n","s","."," ","I","t"," ","c","o","m","e","s"," ","i","n"," ","t","w","o"," ","v","e","r","s","i","o","n","s",":"," ","K","a","y","a","k","o"," ","C","l","a","s","s","i","c"," ","f","o","r"," ","o","n","-","p","r","e","m","i","s","e"," ","d","e","p","l","o","y","m","e","n","t",","," ","a","n","d"," ","T","h","e"," ","N","e","w"," ","K","a","y","a","k","o"," ","(","T","N","K",")"," ","w","h","i","c","h"," ","i","s"," ","a"," ","c","l","o","u","d","-","b","a","s","e","d"," ","S","a","a","S"," ","s","o","l","u","t","i","o","n","."," ","I","t"," ","i","n","c","l","u","d","e","s"," ","f","e","a","t","u","r","e","s"," ","l","i","k","e"," ","m","u","l","t","i","-","c","h","a","n","n","e","l"," ","s","u","p","p","o","r","t",","," ","a","u","t","o","m","a","t","e","d"," ","w","o","r","k","f","l","o","w","s",","," ","a","n","d"," ","r","e","a","l","-","t","i","m","e"," ","a","n","a","l","y","t","i","c","s","."," ","W","o","u","l","d"," ","y","o","u"," ","l","i","k","e"," ","t","o"," ","k","n","o","w"," ","m","o","r","e"," ","a","b","o","u","t"," ","a","n","y"," ","s","p","e","c","i","f","i","c"," ","f","e","a","t","u","r","e","?">>>>,
       <<{<<"a","u","t","o","m","a","t","i","o","n"," ","f","e","a","t","u","r","e","s">>, <<"a","u","t","o","m","a","t","e"," ","r","e","s","p","o","n","s","e","s">>, <<"a","u","t","o","m","a","t","i","c"," ","r","e","p","l","i","e","s">>, <<"a","u","t","o","m","a","t","i","o","n"," ","c","a","p","a","b","i","l","i","t","i","e","s">>},
         <<"K","a","y","a","k","o"," ","o","f","f","e","r","s"," ","s","e","v","e","r","a","l"," ","p","o","w","e","r","f","u","l"," ","a","u","t","o","m","a","t","i","o","n"," ","f","e","a","t","u","r","e","s"," ","i","n","c","l","u","d","i","n","g"," ","S","L","A","s"," ","f","o","r"," ","r","e","s","p","o","n","s","e"," ","t","i","m","e","s",","," ","a","u","t","o","m","a","t","i","c"," ","t","i","c","k","e","t"," ","a","s","s","i","g","n","m","e","n","t",","," ","m","a","c","r","o"," ","r","e","s","p","o","n","s","e","s"," ","f","o","r"," ","c","o","m","m","o","n"," ","q","u","e","r","i","e","s",","," ","a","n","d"," ","e","n","d","-","t","o","-","e","n","d"," ","w","o","r","k","f","l","o","w"," ","a","u","t","o","m","a","t","i","o","n","."," ","W","h","i","c","h"," ","s","p","e","c","i","f","i","c"," ","a","u","t","o","m","a","t","i","o","n"," ","c","a","p","a","b","i","l","i","t","y"," ","w","o","u","l","d"," ","y","o","u"," ","l","i","k","e"," ","t","o"," ","l","e","a","r","n"," ","m","o","r","e"," ","a","b","o","u","t","?">>>> >>

\* every entry's confidence (0.95, 0.95, 0.9) is at least the default minConfidence 0.7
matchCommonQA(query) ==
    LET normalizedQuery == toLowerCase(query)
        Hit == {i \in 1..Len(commonQAs) :
                   \E pattern \in commonQAs[i][1] : includes(normalizedQuery, pattern)}
    IN FirstHit(commonQAs, Hit)

generateCacheKey(query) == trim(toLowerCase(query))

\* Map.get: the response stored under the key, or NoText (every entry is within
\* CACHE_TTL, 24 hours, which no run of the model reaches)
CacheLookup(cache, key) ==
    IF \E e \in cache : e[1] = key THEN (CHOOSE e \in cache : e[1] = key)[2] ELSE NoText

\* Map.set
cacheResponse(cache, key, response) == {e \in cache : e[1] # key} \cup {<<key, response>>}

GeneratorMinLength == 15
GeneratorMinWords == 4

\* ResponseGenerator.isCompleteSentence (its own test, not the handler's)
generatorIsCompleteSentence(text) ==
    LET trimmed == trim(text)
    IN IF Len(trimmed) < GeneratorMinLength THEN FALSE
       ELSE IF \E i \in 1..Len(trimmed) : IsTerminator(trimmed[i]) THEN TRUE
       ELSE WordCount(trimmed) >= GeneratorMinWords

\* what generateResponse returns when the knowledge base cannot be read
knowledgeBaseApology == <<"I"," ","a","p","o","l","o","g","i","z","e",","," ","b","u","t"," ","I","'","m"," ","h","a","v","i","n","g"," ","t","r","o","u","b","l","e"," ","a","c","c","e","s","s","i","n","g"," ","o","u","r"," ","k","n","o","w","l","e","d","g","e"," ","b","a","s","e"," ","a","t"," ","t","h","e"," ","m","o","m","e","n","t","."," ","C","o","u","l","d"," ","y","o","u"," ","p","l","e","a","s","e"," ","t","r","y"," ","y","o","u","r"," ","q","u","e","s","t","i","o","n"," ","a","g","a","i","n","?">>

(***************************************************************************)
(* ResponseGenerator.callGeminiWithRetry                                   *)
(***************************************************************************)
DefaultMaxRetries == 3
RATE_LIMIT_DELAY == 1000
GenerateTimeoutMs == 8000
RateLimitBackoffMs == 2000
StatusUnavailable == 503
StatusRateLimited == 429

genericFallback == <<"K","a","y","a","k","o"," ","o","f","f","e","r","s"," ","c","o","m","p","r","e","h","e","n","s","i","v","e"," ","c","u","s","t","o","m","e","r"," ","s","u","p","p","o","r","t"," ","f","e","a","t","u","r","e","s"," ","i","n","c","l","u","d","i","n","g"," ","m","u","l","t","i","-","c","h","a","n","n","e","l"," ","s","u","p","p","o","r","t",","," ","a","u","t","o","m","a","t","i","o","n",","," ","a","n","d"," ","t","i","c","k","e","t","i","n","g","."," ","W","h","a","t"," ","s","p","e","c","i","f","i","c"," ","a","s","p","e","c","t"," ","w","o","u","l","d"," ","y","o","u"," ","l","i","k","e"," ","t","o"," ","k","n","o","w"," ","m","o","r","e"," ","a","b","o","u","t","?">>

NL == <<"\n">>

\* the prompt generateResponse constructs around a query (lines 344-372); the
\* guidelines of lines 355-370, a constant text in which no pattern of the
\* common questions occurs, are left out
constructPrompt(articleContext, conversationHistory, query) ==
    <<"Y","o","u"," ","a","r","e"," ","a"," ","h","e","l","p","f","u","l"," ","c","u","s","t","o","m","e","r"," ","s","u","p","p","o","r","t"," ","A","I"," ","a","s","s","i","s","t","a","n","t"," ","o","n"," ","a"," ","p","h","o","n","e"," ","c","a","l","l",","," ","s","p","e","c","i","f","i","c","a","l","l","y"," ","f","o","c","u","s","e","d"," ","o","n"," ","K","a","y","a","k","o","'","s"," ","p","r","o","d","u","c","t","s"," ","a","n","d"," ","s","e","r","v","i","c","e","s",".">> \o NL
    \o <<"U","s","e"," ","t","h","e"," ","k","n","o","w","l","e","d","g","e"," ","b","a","s","e"," ","a","r","t","i","c","l","e","s"," ","b","e","l","o","w"," ","t","o"," ","p","r","o","v","i","d","e"," ","d","i","r","e","c","t",","," ","c","o","n","c","i","s","e"," ","r","e","s","p","o","n","s","e","s",".">> \o NL
    \o <<"F","o","c","u","s"," ","o","n","l","y"," ","o","n"," ","a","n","s","w","e","r","i","n","g"," ","q","u","e","s","t","i","o","n","s"," ","a","b","o","u","t"," ","K","a","y","a","k","o"," ","a","n","d"," ","i","t","s"," ","f","e","a","t","u","r","e","s",".">> \o NL \o NL
    \o <<"K","n","o","w","l","e","d","g","e"," ","B","a","s","e"," ","A","r","t","i","c","l","e","s",":">> \o NL
    \o articleContext \o NL \o NL
    \o (IF conversationHistory # <<>>
        THEN <<"P","r","e","v","i","o","u","s"," ","C","o","n","v","e","r","s","a","t","i","o","n",":">> \o NL \o conversationHistory \o NL
        ELSE <<>>) \o NL
    \o <<"C","u","s","t","o","m","e","r"," ","Q","u","e","r","y",":"," ","\"">> \o query \o <<"\"">> \o NL \o NL
    \o <<"G","u","i","d","e","l","i","n","e","s"," ","f","o","r"," ","y","o","u","r"," ","r","e","s","p","o","n","s","e",":">> \o NL \o NL
    \o <<"R","e","s","p","o","n","s","e",":">>

\* no invocation of callGeminiWithRetry
NoRetry ==
    [pc |-> "idle", prompt |-> <<>>, query |-> <<>>, maxRetries |-> 0, attempt |-> 0,
     fallbackModel |-> FALSE, modelToUse |-> "none", lastGeminiCall |-> 0, now |-> 0,
     calls |-> 0, failed |-> FALSE, source |-> "none", result |-> NoText]

\* return of callGeminiWithRetry
RetryReturns(r, source, text) ==
    [r EXCEPT !.pc = "returned", !.source = source, !.result = text]

\* lines 209-256 and 287: an iteration of the loop up to its await of
\* generateContent, or the return after the loop
RetryAttempt(r, cache) ==
    IF r.attempt > r.maxRetries THEN RetryReturns(r, "generic", genericFallback)
    ELSE LET timeSinceLastCall == r.now - r.lastGeminiCall
             r1 == IF timeSinceLastCall < RATE_LIMIT_DELAY
                   THEN [r EXCEPT !.now = @ + (RATE_LIMIT_DELAY - timeSinceLastCall)]
                   ELSE r
             cachedResponse == CacheLookup(cache, generateCacheKey(r.prompt))
             commonQA == matchCommonQA(r.prompt)
             atLast == r.attempt = r.maxRetries
         IN IF r.attempt > 1 /\ cachedResponse # NoText
            THEN RetryReturns(r1, "cache", cachedResponse)
            ELSE IF r.attempt > 1 /\ commonQA # NoText
            THEN RetryReturns(r1, "commonQA", commonQA)
            ELSE [r1 EXCEPT !.fallbackModel = @ \/ atLast,
                            !.modelToUse = IF atLast THEN "fallback" ELSE "main",
                            !.calls = @ + 1,
                            !.pc = "generate"]

\* callGeminiWithRetry(prompt, maxRetries) up to its first await of the generator;
\* query is the query the prompt was made for
callGeminiWithRetry(r, cache, prompt, query, maxRetries, now) ==
    RetryAttempt([NoRetry EXCEPT !.prompt = prompt, !.query = query, !.maxRetries = maxRetries,
                                 !.attempt = 1, !.lastGeminiCall = r.lastGeminiCall,
                                 !.now = now], cache)

\* lines 278-283 and the next iteration: the wait after a rate-limit error
RetryNextAttempt(r, cache, status) ==
    LET r1 == IF status = StatusRateLimited
              THEN [r EXCEPT !.now = @ + r.attempt * RateLimitBackoffMs]
              ELSE r
    IN RetryAttempt([r1 EXCEPT !.attempt = @ + 1], cache)

\* what the race of lines 251-256 may end with: the text of the generator, the
\* timer of 8000 ms, or an error of the generator with its status
GenerateOutcomes ==
    {[kind |-> "text", status |-> 0],
     [kind |-> "timeout", status |-> 0],
     [kind |-> "error", status |-> StatusUnavailable],
     [kind |-> "error", status |-> StatusRateLimited],
     [kind |-> "error", status |-> 0]}

RetryReply == <<"O","p","e","n"," ","t","h","e"," ","l","o","g","i","n"," ","p","a","g","e"," ","a","n","d"," ","t","a","p"," ","R","e","s","e","t"," ","n","o","w",".">>
FallbackReply == <<"K","a","y","a","k","o"," ","h","a","s"," ","a"," ","p","a","s","s","w","o","r","d"," ","r","e","s","e","t"," ","l","i","n","k",".">>

\* lines 257-276: the race of the attempt is over
RetryGenerated(r, cache, outcome) ==
    IF outcome.kind = "text"
    THEN RetryReturns([r EXCEPT !.lastGeminiCall = r.now], "generator", RetryReply)
    ELSE LET r1 == [r EXCEPT !.failed = TRUE,
                             !.now = IF outcome.kind = "timeout" THEN @ + GenerateTimeoutMs ELSE @]
         IN IF outcome.status = StatusUnavailable /\ r.fallbackModel
            THEN [r1 EXCEPT !.calls = @ + 1, !.modelToUse = "fallback", !.pc = "fallback"]
            ELSE RetryNextAttempt(r1, cache, outcome.status)

\* lines 270-275: fallbackModel.generateContent(simplifiedPrompt) settles (the
\* error being handled has status 503)
RetryFallbackAnswered(r, cache, ok) ==
    IF ok THEN RetryReturns(r, "fallbackModel", FallbackReply)
    ELSE RetryNextAttempt(r, cache, StatusUnavailable)

(***************************************************************************)
(* Bounds of the model and the inputs it draws                             *)
(***************************************************************************)
MaxSegments == 2
MaxTicks == 2
MaxRejects == 1
MaxConnections == 2
MaxCallSegments == 1
MaxStarts == 2
MaxFrames == 2
MaxStreams == 3
MaxStreamSegments == 1
MaxServerSegments == 2

\* the steps by which time advances between two events: one step is past the
\* cooldown, the silence threshold, the chunk spacing and the grace period, and
\* reaches the acknowledgment delay
TickSteps == {ACKNOWLEDGMENT_DELAY}

U_reset == <<"H","o","w"," ","d","o"," ","I"," ","r","e","s","e","t"," ","m","y"," ","p","a","s","s","w","o","r","d","?">>
U_cue == <<"T","h","a","n","k","s"," ","f","o","r"," ","t","h","e"," ","h","e","l","p",","," ","I"," ","h","a","v","e"," ","a","n","o","t","h","e","r"," ","q","u","e","s","t","i","o","n">>
U_done == <<"T","h","a","t","'","s"," ","a","l","l",","," ","g","o","o","d","b","y","e",".">>
U_weather == <<"W","h","a","t"," ","i","s"," ","t","h","e"," ","w","e","a","t","h","e","r"," ","t","o","d","a","y","?">>

\* the call ids the webhook layer and the media sockets name
CallIds == {"CA1", "CA2"}

\* the transcript segments the recognition stream may deliver
SegmentMenu ==
    {[text |-> U_reset, isFinal |-> TRUE],
     [text |-> U_reset, isFinal |-> FALSE],
     [text |-> U_cue, isFinal |-> TRUE],
     [text |-> U_done, isFinal |-> TRUE],
     [text |-> U_weather, isFinal |-> TRUE],
     [text |-> <<>>, isFinal |-> TRUE]}

\* segments that begin with a filler word, which the recognition stream may
\* deliver while the reply to an opening question is in flight
U_oh == <<"O","h"," ","w","a","i","t",","," ","w","h","a","t"," ","a","b","o","u","t"," ","b","i","l","l","i","n","g","?">>
U_okay == <<"O","k","a","y",","," ","l","e","t"," ","m","e"," ","c","h","e","c","k"," ","t","h","a","t"," ","f","i","r","s","t">>

FillerMenu ==
    {[text |-> U_oh, isFinal |-> TRUE],
     [text |-> U_oh, isFinal |-> FALSE],
     [text |-> U_okay, isFinal |-> TRUE],
     [text |-> U_okay, isFinal |-> FALSE]}

\* segments that pass none of the content tests of isCompleteSentence, and one
\* below its length floor
U_account == <<"m","y"," ","a","c","c","o","u","n","t"," ","s","e","t","t","i","n","g","s">>
U_bye == <<"b","y","e">>

PauseMenu ==
    {[text |-> U_account, isFinal |-> TRUE],
     [text |-> U_account, isFinal |-> FALSE],
     [text |-> U_bye, isFinal |-> TRUE],
     [text |-> <<>>, isFinal |-> TRUE]}

\* what the external services do in one call of generateResponse, decided by
\* its first event: the generator's stream yields chunks; or the knowledge base
\* cannot be read; or the generator fails (the errors of the generator carry
\* neither of the two messages the catch of generateResponse turns into a reply)
NoOutcome == [kind |-> "none", chunks |-> <<>>]
PlanOpen == << <<"O","p","e","n"," ","t","h","e"," ","l","o","g","i","n"," ","p","a","g","e">>, <<" ","a","n","d"," ","t","a","p"," ","R","e","s","e","t"," ","n","o","w",".">> >>
Outcomes ==
    {[kind |-> "stream", chunks |-> PlanOpen],
     [kind |-> "noContext", chunks |-> <<>>],
     [kind |-> "throw", chunks |-> <<>>]}

\* a reply of three sentences that the generator's stream yields in three
\* chunks, the second of which ends inside the third sentence
PlanSteps == << <<"O","p","e","n"," ","t","h","e"," ","l","o","g","i","n"," ","p","a","g","e",".">>, <<" ","T","h","e","n"," ","t","a","p"," ","R","e","s","e","t","."," ","W","a","i","t"," ","f","o","r">>, <<" ","t","h","e"," ","e","m","a","i","l",".">> >>

ChunkOutcomes ==
    {[kind |-> "stream", chunks |-> PlanSteps],
     [kind |-> "stream", chunks |-> PlanOpen]}

(***************************************************************************)
(* State                                                                   *)
(***************************************************************************)
VARIABLES
    clock,                \* Date.now()
    ticks,                \* how many times the clock has advanced
    isCallActive,         \* closure variable of handleMediaStream
    isProcessingResponse, \* closure variable of handleMediaStream
    activeCall,           \* activeCalls.has(callSid)
    pendingTranscript,    \* callData.pendingTranscript
    lastResponse,         \* callData.lastResponse
    lastTranscriptTime,   \* callData.lastTranscriptTime
    transcriptHistory,    \* ConversationState.transcriptHistory
    responseCache,        \* ResponseGenerator.responseCache: a set of <<key, response>>
    handlers,             \* the invocations of the 'data' handler, in arrival order
    updates,              \* every client.calls(sid).update, in submission order
    cycles,               \* every call of generateResponse, in order
    handoffs,             \* every pass of the completion gate beyond the rate limiter
    rejects,              \* the number of updates the channel has rejected
    conversations,        \* ConversationManager.conversations, by call id
    activeCalls,          \* the map activeCalls: call id -> the connection whose record it holds (0: no entry)
    connections,          \* the invocations of handleMediaStream, in order
    endSignals,           \* the call ids whose call-ended signal has been processed
    streams,              \* every recognition stream createStreamingRecognition has returned
    recognizeStream,      \* closure variable of handleMediaStream: the stream in use (an index of streams)
    frames,               \* for every media frame handled, the stream it was written to (0: none)
    retry                 \* the invocation of callGeminiWithRetry: its locals and its position

vars == <<clock, ticks, isCallActive, isProcessingResponse, activeCall, pendingTranscript,
          lastResponse, lastTranscriptTime, transcriptHistory, responseCache,
          handlers, updates, cycles, handoffs, rejects,
          conversations, activeCalls, connections, endSignals,
          streams, recognizeStream, frames, retry>>

\* the state of the server as a whole, which SessionSpec moves
serverVars == <<conversations, activeCalls, connections, endSignals>>

\* the recognition streams of the call, which StreamSpec moves
streamVars == <<streams, recognizeStream, frames>>

\* the state the operators below transform, as one record
World ==
    [isCallActive |-> isCallActive, isProcessingResponse |-> isProcessingResponse,
     activeCall |-> activeCall, pendingTranscript |-> pendingTranscript,
     lastResponse |-> lastResponse, lastTranscriptTime |-> lastTranscriptTime,
     transcriptHistory |-> transcriptHistory, responseCache |-> responseCache,
     handlers |-> handlers, updates |-> updates,
     cycles |-> cycles, handoffs |-> handoffs, rejects |-> rejects]

Becomes(w) ==
    /\ isCallActive' = w.isCallActive
    /\ isProcessingResponse' = w.isProcessingResponse
    /\ activeCall' = w.activeCall
    /\ pendingTranscript' = w.pendingTranscript
    /\ lastResponse' = w.lastResponse
    /\ lastTranscriptTime' = w.lastTranscriptTime
    /\ transcriptHistory' = w.transcriptHistory
    /\ responseCache' = w.responseCache
    /\ handlers' = w.handlers
    /\ updates' = w.updates
    /\ cycles' = w.cycles
    /\ handoffs' = w.handoffs
    /\ rejects' = w.rejects
    /\ streams' = IF activeCall /\ ~w.activeCall
                  THEN [streams EXCEPT ![recognizeStream].state = "destroyed"]
                  ELSE streams
    /\ UNCHANGED <<recognizeStream, frames, retry>>
    /\ UNCHANGED serverVars

\* one invocation of the 'data' handler: its arguments, where it is suspended
\* (pc), the locals of the generation cycle it started, and the state of that
\* cycle's generateResponse call (gen)
NewHandler(transcription, isFinal) ==
    [text |-> transcription, isFinal |-> isFinal, now |-> clock, pc |-> "run",
     cyc |-> 0, origin |-> "none", finalTranscript |-> <<>>,
     accumulatedResponse |-> <<>>, lastSentLength |-> 0, isFirstChunk |-> TRUE,
     lastChunkSent |-> 0, ackDeadline |-> 0,
     gen |-> "none", outcome |-> NoOutcome, idx |-> 0, fullResponse |-> <<>>,
     lastChunkLength |-> 0, response |-> <<>>, final |-> FALSE]

\* A variable the code can no longer read is given its initial value, so that
\* two states the program cannot tell apart are one state of the model:
\* a handler that has returned and whose generateResponse call has settled keeps
\* nothing; the arguments and the locals of a cycle are kept as long as a
\* continuation that reads them can still run.
GenSettled(hr) == hr.gen \in {"none", "resolved", "rejected"}

ReachesGate(hr) == hr.pc \in {"softUpd", "intGen"}

ReachesFinish(hr) == hr.pc \in {"race", "immUpd", "ackUpd", "await", "remUpd"}

Forget(hr) ==
    IF hr.pc = "done" /\ GenSettled(hr)
    THEN [NewHandler(<<>>, FALSE) EXCEPT !.now = 0, !.pc = "done"]
    ELSE [hr EXCEPT
            !.text = IF hr.pc = "softUpd" THEN @ ELSE <<>>,
            !.isFinal = IF ReachesGate(hr) THEN @ ELSE FALSE,
            !.now = IF ReachesGate(hr) \/ ReachesFinish(hr) THEN @ ELSE 0,
            !.ackDeadline = IF hr.pc = "race" THEN @ ELSE 0,
            !.finalTranscript = IF hr.pc = "race" \/ ~GenSettled(hr) THEN @ ELSE <<>>,
            !.accumulatedResponse =
                IF ~GenSettled(hr) \/ hr.pc \in {"race", "immUpd", "ackUpd", "await"} THEN @ ELSE <<>>,
            !.lastSentLength = IF GenSettled(hr) THEN 0 ELSE @,
            !.isFirstChunk = IF GenSettled(hr) THEN TRUE ELSE @,
            !.lastChunkSent = IF GenSettled(hr) \/ hr.isFirstChunk THEN 0 ELSE @,
            !.outcome = IF GenSettled(hr) THEN NoOutcome ELSE @,
            !.idx = IF GenSettled(hr) THEN 0 ELSE @,
            !.fullResponse = IF GenSettled(hr) THEN <<>> ELSE @,
            !.lastChunkLength = IF GenSettled(hr) THEN 0 ELSE @,
            !.response = IF ReachesFinish(hr) \/ hr.pc = "intGen" THEN @ ELSE <<>>]

Settle(w) ==
    [w EXCEPT !.handlers = [i \in 1..Len(w.handlers) |-> Forget(w.handlers[i])]]

(***************************************************************************)
(* ConversationManager and the call-control channel                        *)
(***************************************************************************)
\* ConversationManager.addToHistory; cyc (which cycle appended the entry) is
\* bookkeeping of the model
addToHistory(w, speaker, text, cyc) ==
    [w EXCEPT !.transcriptHistory = Append(@, [speaker |-> speaker, text |-> text, cyc |-> cyc])]

\* client.calls(sid).update({twiml}) is called: the request is now in flight.
\* who is "H" when the handler awaits it and "G" when the stream callback does.
Submit(w, h, who, kind, text) ==
    [w EXCEPT !.updates = Append(@,
        [h |-> h, cyc |-> w.handlers[h].cyc, who |-> who, kind |-> kind, text |-> text,
         epoch |-> Len(w.cycles), at |-> clock, status |-> "inflight"])]

InFlight(us) == {i \in 1..Len(us) : us[i].status = "inflight"}

\* cleanupCall: activeCalls.delete(callSid); the stream of the record is
\* destroyed where the record is written back (Becomes)
cleanupCall(w) == [w EXCEPT !.activeCall = FALSE]

(***************************************************************************)
(* ResponseGenerator.generateResponse                                      *)
(***************************************************************************)
\* the reply generateResponse returns before its first await, or NoText
InstantReply(cache, query) ==
    LET conv == IF ~includes(toLowerCase(query), <<"k","a","y","a","k","o">>)
                THEN checkConversationalResponse(query) ELSE NoText
    IN IF conv # NoText THEN conv
       ELSE IF matchCommonQA(query) # NoText THEN matchCommonQA(query)
       ELSE CacheLookup(cache, generateCacheKey(query))

\* generateResponse(query, conversationState, {streamCallback}) is called by
\* handler h and runs to its first await
StartGeneration(w, h, origin, query) ==
    LET instant == InstantReply(w.responseCache, query)
        w1 == [w EXCEPT !.cycles = Append(@, [h |-> h, text |-> query, at |-> clock, origin |-> origin])]
    IN [w1 EXCEPT !.handlers[h] =
           [@ EXCEPT !.cyc = Len(w1.cycles), !.origin = origin, !.finalTranscript = query,
                     !.accumulatedResponse = <<>>, !.lastSentLength = 0,
                     !.isFirstChunk = TRUE, !.lastChunkSent = clock,
                     !.gen = IF instant # NoText THEN "resolved" ELSE "stream",
                     !.outcome = NoOutcome,
                     !.idx = 0, !.fullResponse = <<>>, !.lastChunkLength = 0,
                     !.response = IF instant # NoText THEN instant ELSE <<>>]]

(***************************************************************************)
(* setupRecognitionStreamHandler: the completion gate and the cycle        *)
(***************************************************************************)
hasEstablishedContext(w) == Len(w.transcriptHistory) > EstablishedContextLength

\* lines 578-611: the remaining content, the history entry and the reset
Finish(w, h) ==
    LET hr == w.handlers[h]
        w1 == addToHistory(w, "ai", hr.response, hr.cyc)
    IN [w1 EXCEPT !.pendingTranscript = <<>>, !.lastResponse = hr.now,
                  !.isProcessingResponse = FALSE, !.handlers[h].pc = "done"]

Remaining(w, h) ==
    LET hr == w.handlers[h]
        remainingContent == trim(slice(hr.response, Len(hr.accumulatedResponse)))
    IN IF /\ hr.accumulatedResponse # <<>>
          /\ Len(hr.accumulatedResponse) < Len(hr.response)
          /\ remainingContent # <<>>
       THEN [Submit(w, h, "H", "remaining", remainingContent) EXCEPT !.handlers[h].pc = "remUpd"]
       ELSE Finish(w, h)

\* lines 615-638: the inner catch
Recovery(w, h) ==
    [Submit(w, h, "H", "recovery", recoveryText) EXCEPT !.handlers[h].pc = "recUpd"]

\* lines 639-661: the outer catch
OuterCatch(w, h) ==
    [Submit([w EXCEPT !.isProcessingResponse = FALSE], h, "H", "repeat", repeatText)
        EXCEPT !.handlers[h].pc = "errUpd"]

\* lines 486-512: the race was won by the response
RaceResponse(w, h) ==
    IF w.handlers[h].accumulatedResponse = <<>>
    THEN [Submit(w, h, "H", "immediate", w.handlers[h].response) EXCEPT !.handlers[h].pc = "immUpd"]
    ELSE Remaining(w, h)

\* the completion verdict with an evaluation that records its instant in the
\* record
completionVerdict_Recording(w, now) ==
    [hasCompleteSentence |-> isCompleteSentence(w.pendingTranscript),
     isLongEnoughPause |-> now - w.lastTranscriptTime > SilenceThresholdMs,
     callData |-> [w EXCEPT !.lastTranscriptTime = now - SilenceThresholdMs - 1]]

\* lines 307-309: the two verdicts of the completion test at the instant now,
\* and the record as the evaluation leaves it
completionVerdict(w, now) ==
    [hasCompleteSentence |-> isCompleteSentence(w.pendingTranscript),
     isLongEnoughPause |-> now - w.lastTranscriptTime > SilenceThresholdMs,
     callData |-> w]

\* lines 307-367 and 469-484: the completion gate, run by handler h
Gate(w, h) ==
    LET hr == w.handlers[h]
        verdict == completionVerdict(w, hr.now)
        finalTranscript == trim(w.pendingTranscript)
        done == [w EXCEPT !.handlers[h].pc = "done"]
    IN IF ~(hr.isFinal /\ finalTranscript # <<>> /\ (verdict.hasCompleteSentence \/ verdict.isLongEnoughPause))
       THEN done
       ELSE IF hr.now - w.lastResponse < CooldownMs THEN done
       ELSE IF isGoodbyeMessage(finalTranscript)
       THEN LET w1 == [w EXCEPT !.handoffs = Append(@, [h |-> h, text |-> finalTranscript, branch |-> "goodbye"])]
            IN [Submit(w1, h, "H", "goodbye", goodbyeResponse) EXCEPT !.handlers[h].pc = "byeUpd"]
       ELSE LET w1 == [w EXCEPT !.handoffs = Append(@, [h |-> h, text |-> finalTranscript, branch |-> "generate"])]
                w2 == addToHistory(w1, "user", finalTranscript, 0)
                w3 == [w2 EXCEPT !.isProcessingResponse = TRUE]
                w4 == StartGeneration(w3, h, "gate", finalTranscript)
            IN IF w4.handlers[h].gen = "resolved"
               THEN RaceResponse(w4, h)
               ELSE [w4 EXCEPT !.handlers[h].pc = "race",
                               !.handlers[h].ackDeadline = clock + ACKNOWLEDGMENT_DELAY]

\* lines 290-296, then the gate: the interruption's generateResponse has settled
InterruptionSettled(w, h) ==
    LET hr == w.handlers[h]
    IN IF hr.gen = "resolved"
       THEN Gate([addToHistory(w, "ai", hr.response, hr.cyc) EXCEPT !.lastResponse = clock], h)
       ELSE Gate([w EXCEPT !.isProcessingResponse = FALSE], h)

\* the promise of generateResponse has settled: the handler awaiting it resumes
ResumeHandler(w, h) ==
    LET hr == w.handlers[h]
    IN CASE hr.pc = "intGen" -> InterruptionSettled(w, h)
         [] hr.pc = "race" -> IF hr.gen = "resolved" THEN RaceResponse(w, h) ELSE Recovery(w, h)
         [] hr.pc = "await" -> IF hr.gen = "resolved" THEN Remaining(w, h) ELSE Recovery(w, h)
         [] OTHER -> w

\* lines 513-568: the race was won by the acknowledgment timer
RaceTimeout(w, h) ==
    LET hr == w.handlers[h]
    IN IF hr.accumulatedResponse = <<>>
       THEN IF isObviouslyUnrelated(hr.finalTranscript) /\ ~hasEstablishedContext(w)
            THEN [Submit(w, h, "H", "redirect", redirectText) EXCEPT !.handlers[h].pc = "redirUpd"]
            ELSE [Submit(w, h, "H", "filler", fillerText) EXCEPT !.handlers[h].pc = "ackUpd"]
       ELSE [w EXCEPT !.handlers[h].pc = "await"]

(***************************************************************************)
(* The stream callbacks                                                    *)
(***************************************************************************)
\* lines 371-465: streamCallback of a cycle started by the gate, up to its
\* await or its return; gen = "cb" says it is suspended in the await
streamCallback(w, h) ==
    LET hr == w.handlers[h]
        partial == hr.fullResponse
    IN IF ~w.isCallActive \/ ~w.isProcessingResponse THEN w
       ELSE IF hr.isFirstChunk
       THEN IF Len(partial) < FirstChunkMinLength \/ ~isCompleteSentence(partial) THEN w
            ELSE [Submit(w, h, "G", "first", partial) EXCEPT !.handlers[h].gen = "cb"]
       ELSE IF clock - hr.lastChunkSent < ChunkSpacingMs THEN w
       ELSE LET w1 == [w EXCEPT !.handlers[h].accumulatedResponse = partial]
                newContent == slice(partial, hr.lastSentLength)
                sentences == MatchSentences(newContent)
            IN IF trim(newContent) = <<>> THEN w1
               ELSE IF sentences = <<>> THEN w1
               ELSE [Submit(w1, h, "G", "chunk", trim(JoinWithSpace(sentences)))
                        EXCEPT !.handlers[h].gen = "cb"]

\* lines 267-286: streamCallback of a cycle started by a confirmed interruption
interruptionCallback(w, h) ==
    IF ~w.isCallActive \/ ~w.isProcessingResponse THEN w
    ELSE [Submit(w, h, "G", "intChunk", w.handlers[h].fullResponse) EXCEPT !.handlers[h].gen = "cb"]

Callback(w, h) ==
    IF w.handlers[h].origin = "gate" THEN streamCallback(w, h) ELSE interruptionCallback(w, h)

(***************************************************************************)
(* generateResponse after its first await (responseGenerator.ts 374-422)   *)
(***************************************************************************)
GenSettle(w, h, how, response) ==
    ResumeHandler([w EXCEPT !.handlers[h].gen = how, !.handlers[h].response = response,
                            !.handlers[h].final = FALSE], h)

\* lines 405-411
GenReturn(w, h) ==
    LET hr == w.handlers[h]
        w1 == [w EXCEPT !.responseCache =
                  cacheResponse(@, generateCacheKey(hr.finalTranscript), hr.fullResponse)]
    IN GenSettle(w1, h, "resolved", hr.fullResponse)

\* the callback has returned (at once, or after its await)
AfterCallback(w, h) ==
    IF w.handlers[h].final
    THEN GenReturn(w, h)
    ELSE [w EXCEPT !.handlers[h].gen = "stream",
                   !.handlers[h].lastChunkLength = Len(w.handlers[h].fullResponse)]

CallbackThen(w, h) ==
    LET w1 == Callback(w, h)
    IN IF w1.handlers[h].gen = "cb" THEN w1 ELSE AfterCallback(w1, h)

\* one event of the generator's stream reaches generateResponse
GenEvent(w, h, outcome) ==
    LET hr == w.handlers[h]
    IN CASE outcome.kind = "throw" -> GenSettle(w, h, "rejected", <<>>)
         [] outcome.kind = "noContext" -> GenSettle(w, h, "resolved", knowledgeBaseApology)
         [] outcome.kind = "stream" /\ hr.idx < Len(outcome.chunks) ->
              LET fullResponse == hr.fullResponse \o outcome.chunks[hr.idx + 1]
                  w1 == [w EXCEPT !.handlers[h].fullResponse = fullResponse,
                                  !.handlers[h].outcome = outcome,
                                  !.handlers[h].idx = hr.idx + 1]
                  newContent == slice(fullResponse, hr.lastChunkLength)
              IN IF trim(newContent) # <<>> /\ generatorIsCompleteSentence(newContent)
                 THEN CallbackThen(w1, h)
                 ELSE w1
         [] OTHER ->
              IF /\ Len(hr.fullResponse) > hr.lastChunkLength
                 /\ trim(slice(hr.fullResponse, hr.lastChunkLength)) # <<>>
              THEN CallbackThen([w EXCEPT !.handlers[h].final = TRUE], h)
              ELSE GenReturn(w, h)

(***************************************************************************)
(* The 'data' handler up to its first await (lines 187-367)                *)
(***************************************************************************)
OnData(w0, transcription, isFinal) ==
    LET h == Len(w0.handlers) + 1
        w == [w0 EXCEPT !.handlers = Append(@, NewHandler(transcription, isFinal))]
        heard == [w EXCEPT !.lastTranscriptTime = clock]
    IN IF trim(transcription) = <<>> THEN Gate(w, h)
       ELSE IF ~isFinal
       THEN IF w.isProcessingResponse /\ IsSoftInterruptionText(transcription)
            THEN [Submit([heard EXCEPT !.isProcessingResponse = FALSE], h, "H", "soft", <<>>)
                     EXCEPT !.handlers[h].pc = "softUpd"]
            ELSE Gate(heard, h)
       ELSE IF w.isProcessingResponse
       THEN IF isRealInterruption(transcription, clock, w.lastResponse)
            THEN LET finalTranscript == trim(transcription)
                     w1 == addToHistory(heard, "user", finalTranscript, 0)
                     w2 == StartGeneration(w1, h, "interruption", finalTranscript)
                 IN IF w2.handlers[h].gen = "resolved"
                    THEN InterruptionSettled(w2, h)
                    ELSE [w2 EXCEPT !.handlers[h].pc = "intGen"]
            ELSE Gate(heard, h)
       ELSE Gate([heard EXCEPT !.pendingTranscript = @ \o <<" ">> \o transcription], h)

(***************************************************************************)
(* An update is answered by the channel                                    *)
(***************************************************************************)
\* the stream callback resumes after its await
CallbackResumes(w, u, ok) ==
    LET h == w.updates[u].h
        hr == w.handlers[h]
    IN IF hr.origin = "gate"
       THEN LET w1 ==
                  IF ~ok THEN w
                  ELSE IF w.updates[u].kind = "first"
                  THEN [w EXCEPT !.handlers[h].lastSentLength = Len(w.updates[u].text),
                                 !.handlers[h].lastChunkSent = clock,
                                 !.handlers[h].isFirstChunk = FALSE,
                                 !.handlers[h].accumulatedResponse = w.updates[u].text]
                  ELSE [w EXCEPT !.handlers[h].lastSentLength = Len(hr.accumulatedResponse),
                                 !.handlers[h].lastChunkSent = clock]
            IN AfterCallback(w1, h)
       ELSE IF ok THEN AfterCallback(w, h)
            ELSE GenSettle(w, h, "rejected", <<>>)

\* the goodbye branch with the teardown done whatever the answer to the hangup
GoodbyeAnswered_TeardownAnyway(w, h, ok) ==
    IF ok THEN [cleanupCall([w EXCEPT !.isCallActive = FALSE]) EXCEPT !.handlers[h].pc = "done"]
    ELSE OuterCatch(cleanupCall([w EXCEPT !.isCallActive = FALSE]), h)

\* lines 337-345: the goodbye branch after the await of the hangup update
GoodbyeAnswered(w, h, ok) ==
    IF ok THEN [cleanupCall([w EXCEPT !.isCallActive = FALSE]) EXCEPT !.handlers[h].pc = "done"]
    ELSE OuterCatch(w, h)

\* the handler resumes after its await
HandlerResumes(w, u, ok) ==
    LET h == w.updates[u].h
        hr == w.handlers[h]
    IN CASE hr.pc = "softUpd" ->
              Gate([w EXCEPT !.pendingTranscript = hr.text], h)
         [] hr.pc = "byeUpd" -> GoodbyeAnswered(w, h, ok)
         [] hr.pc = "immUpd" -> IF ok THEN Remaining(w, h) ELSE Recovery(w, h)
         [] hr.pc = "redirUpd" -> IF ok THEN [w EXCEPT !.handlers[h].pc = "done"] ELSE Recovery(w, h)
         [] hr.pc = "ackUpd" ->
              IF ~ok THEN Recovery(w, h)
              ELSE IF hr.gen = "resolved" THEN Remaining(w, h)
              ELSE IF hr.gen = "rejected" THEN Recovery(w, h)
              ELSE [w EXCEPT !.handlers[h].pc = "await"]
         [] hr.pc = "remUpd" -> IF ok THEN Finish(w, h) ELSE Recovery(w, h)
         [] hr.pc = "recUpd" ->
              IF ok THEN [w EXCEPT !.isProcessingResponse = FALSE, !.handlers[h].pc = "done"]
              ELSE OuterCatch(w, h)
         [] OTHER -> [w EXCEPT !.handlers[h].pc = "done"]

Answered(w0, u, ok) ==
    LET w == [w0 EXCEPT !.updates[u].status = IF ok THEN "ok" ELSE "rejected",
                        !.rejects = IF ok THEN @ ELSE @ + 1]
    IN IF w.updates[u].who = "G" THEN CallbackResumes(w, u, ok)
       ELSE HandlerResumes(w, u, ok)

(***************************************************************************)
(* The server: calls by id, their conversations and their media sockets    *)
(***************************************************************************)
\* conversations.get(callSid) of an id the map does not hold
NoConversation == [exists |-> FALSE, transcriptHistory |-> <<>>]

Server ==
    [conversations |-> conversations, activeCalls |-> activeCalls,
     connections |-> connections, endSignals |-> endSignals,
     responseCache |-> responseCache]

ServerBecomes(s) ==
    /\ conversations' = s.conversations
    /\ activeCalls' = s.activeCalls
    /\ connections' = s.connections
    /\ endSignals' = s.endSignals
    /\ responseCache' = s.responseCache
    /\ UNCHANGED <<isCallActive, isProcessingResponse, activeCall, pendingTranscript,
                   lastResponse, lastTranscriptTime, transcriptHistory,
                   handlers, updates, cycles, handoffs, rejects, streamVars, retry>>

\* initializeConversation without the test conversations.has(callSid)
initializeConversation_Always(s, callSid) ==
    [s EXCEPT !.conversations[callSid] = [exists |-> TRUE, transcriptHistory |-> <<>>]]

\* ConversationManager.initializeConversation
initializeConversation(s, callSid) ==
    IF s.conversations[callSid].exists THEN s
    ELSE [s EXCEPT !.conversations[callSid] = [exists |-> TRUE, transcriptHistory |-> <<>>]]

\* ConversationManager.addToHistory(callSid, speaker, text)
addToHistoryOfCall(s, callSid, speaker, text) ==
    IF s.conversations[callSid].exists
    THEN [s EXCEPT !.conversations[callSid].transcriptHistory =
             Append(@, [speaker |-> speaker, text |-> text, cyc |-> 0])]
    ELSE s

\* handleIncomingCall with a call id (the try block cannot throw)
handleIncomingCall(s, callSid) ==
    addToHistoryOfCall(initializeConversation(s, callSid), callSid, "ai", greeting)

\* the closure variables and the record handleMediaStream creates; the handlers
\* and the logs of the connection are kept with them
NewConnection(callSid) ==
    [callSid |-> callSid, ws |-> "open", destroyed |-> FALSE,
     world |-> [isCallActive |-> TRUE, isProcessingResponse |-> FALSE, activeCall |-> TRUE,
                pendingTranscript |-> <<>>, lastResponse |-> clock, lastTranscriptTime |-> clock,
                transcriptHistory |-> <<>>, responseCache |-> {},
                handlers |-> <<>>, updates |-> <<>>, cycles |-> <<>>, handoffs |-> <<>>,
                rejects |-> 0]]

\* handleMediaStream(ws, callSid): activeCalls.set(callSid, {...})
handleMediaStream(s, callSid) ==
    [s EXCEPT !.connections = Append(@, NewConnection(callSid)),
              !.activeCalls[callSid] = Len(s.connections) + 1]

\* cleanupCall that looks for the latest live connection of the call id
\* instead of the record activeCalls holds
cleanupCallOfCall_LatestConnection(s, callSid) ==
    LET live == {c \in 1..Len(s.connections) :
                    s.connections[c].callSid = callSid /\ ~s.connections[c].destroyed}
        latest == CHOOSE c \in live : \A d \in live : d <= c
    IN IF live = {} THEN s
       ELSE [s EXCEPT !.connections[latest].ws = IF @ = "open" THEN "closing" ELSE @,
                      !.connections[latest].destroyed = TRUE,
                      !.activeCalls[callSid] = 0]

\* cleanupCall that empties the map activeCalls
cleanupCallOfCall_AllCalls(s, callSid) ==
    LET c == s.activeCalls[callSid]
    IN IF c = 0 THEN s
       ELSE [s EXCEPT !.connections[c].ws = IF @ = "open" THEN "closing" ELSE @,
                      !.connections[c].destroyed = TRUE,
                      !.activeCalls = [id \in CallIds |-> 0]]

\* cleanupCall(callSid): it acts on the record activeCalls holds for the id;
\* conversationManager.endConversation deletes a conversation only when
\* ticketCreated is set, and nothing sets it
cleanupCallOfCall(s, callSid) ==
    LET c == s.activeCalls[callSid]
    IN IF c = 0 THEN s
       ELSE [s EXCEPT !.connections[c].ws = IF @ = "open" THEN "closing" ELSE @,
                      !.connections[c].destroyed = TRUE,
                      !.activeCalls[callSid] = 0]

\* endCall(callSid), called by POST /voice/status
endCall(s, callSid) ==
    [cleanupCallOfCall(s, callSid) EXCEPT !.endSignals = @ \cup {callSid}]

\* what the handlers of connection c see: its closure variables and record,
\* the conversation of its call id and the generator's cache
Bind(s, c) ==
    [s.connections[c].world EXCEPT
        !.transcriptHistory = s.conversations[s.connections[c].callSid].transcriptHistory,
        !.responseCache = s.responseCache]

\* the server after a handler of connection c has run and left w
Unbind(s, c, w) ==
    LET callSid == s.connections[c].callSid
        s1 == [s EXCEPT !.connections[c].world =
                            [w EXCEPT !.transcriptHistory = <<>>, !.responseCache = {},
                                      !.activeCall = TRUE],
                        !.conversations[callSid].transcriptHistory = w.transcriptHistory,
                        !.responseCache = w.responseCache]
    IN IF w.activeCall THEN s1 ELSE cleanupCallOfCall(s1, callSid)

(***************************************************************************)
(* Actions                                                                 *)
(***************************************************************************)
\* an acknowledgment timer that is due fires before anything else happens
AckDue(h) == handlers[h].pc = "race" /\ clock >= handlers[h].ackDeadline

NoAckDue == \A h \in 1..Len(handlers) : ~AckDue(h)

Init ==
    /\ clock = 0
    /\ ticks = 0
    /\ isCallActive = TRUE
    /\ isProcessingResponse = FALSE
    /\ activeCall = TRUE
    /\ pendingTranscript = <<>>
    /\ lastResponse = 0
    /\ lastTranscriptTime = 0
    /\ transcriptHistory = << [speaker |-> "ai", text |-> greeting, cyc |-> 0] >>
    /\ responseCache = {}
    /\ handlers = <<>>
    /\ updates = <<>>
    /\ cycles = <<>>
    /\ handoffs = <<>>
    /\ rejects = 0
    /\ conversations = [id \in CallIds |-> NoConversation]
    /\ activeCalls = [id \in CallIds |-> 0]
    /\ connections = <<>>
    /\ endSignals = {}
    /\ streams = << [state |-> "writable", subscribed |-> TRUE] >>
    /\ recognizeStream = 1
    /\ frames = <<>>
    /\ retry = NoRetry

\* time passes
Tick ==
    /\ NoAckDue
    /\ ticks < MaxTicks
    /\ ticks' = ticks + 1
    /\ \E d \in TickSteps : clock' = clock + d
    /\ UNCHANGED <<isCallActive, isProcessingResponse, activeCall, pendingTranscript,
                   lastResponse, lastTranscriptTime, transcriptHistory, responseCache,
                   handlers, updates, cycles, handoffs, rejects, serverVars, streamVars, retry>>

\* stream.on('data'): the recognition stream delivers a transcript segment
Data ==
    /\ NoAckDue
    /\ activeCall
    /\ Len(handlers) < MaxSegments
    /\ \E seg \in SegmentMenu :
        \E w \in {Settle(OnData(World, seg.text, seg.isFinal))} : Becomes(w)
    /\ UNCHANGED <<clock, ticks>>

\* the generator's stream yields a chunk, ends or fails
Generator ==
    /\ NoAckDue
    /\ \E h \in 1..Len(handlers) :
        /\ handlers[h].gen = "stream"
        /\ \E outcome \in (IF handlers[h].outcome = NoOutcome THEN Outcomes ELSE {handlers[h].outcome}) :
            \E w \in {Settle(GenEvent(World, h, outcome))} : Becomes(w)
    /\ UNCHANGED <<clock, ticks>>

\* setTimeout(resolve, ACKNOWLEDGMENT_DELAY) fires
AckTimer ==
    /\ \E h \in 1..Len(handlers) :
        /\ AckDue(h)
        /\ \E w \in {Settle(RaceTimeout(World, h))} : Becomes(w)
    /\ UNCHANGED <<clock, ticks>>

\* the channel answers an update that is in flight
UpdateAnswered ==
    /\ NoAckDue
    /\ \E u \in InFlight(updates), ok \in BOOLEAN :
        /\ ~ok => rejects < MaxRejects
        /\ \E w \in {Settle(Answered(World, u, ok))} : Becomes(w)
    /\ UNCHANGED <<clock, ticks>>

\* ws.on('close'), ws.on('error') and the 'stop' message
CallEnds ==
    /\ NoAckDue
    /\ isCallActive
    /\ \E w \in {Settle(cleanupCall([World EXCEPT !.isCallActive = FALSE]))} : Becomes(w)
    /\ UNCHANGED <<clock, ticks>>

Next == Tick \/ Data \/ Generator \/ AckTimer \/ UpdateAnswered \/ CallEnds

Spec == Init /\ [][Next]_vars

(***************************************************************************)
(* Actions of the server with several calls                                *)
(***************************************************************************)
ConnAckDue(c, h) ==
    /\ connections[c].world.handlers[h].pc = "race"
    /\ clock >= connections[c].world.handlers[h].ackDeadline

NoConnAckDue ==
    \A c \in 1..Len(connections) : \A h \in 1..Len(connections[c].world.handlers) : ~ConnAckDue(c, h)

\* the transcript segments delivered so far, over all connections
RECURSIVE SegmentsUpTo(_)
SegmentsUpTo(c) == IF c = 0 THEN 0 ELSE Len(connections[c].world.handlers) + SegmentsUpTo(c - 1)

ServerSegments == SegmentsUpTo(Len(connections))

SessionInit ==
    /\ clock = 0
    /\ ticks = 0
    /\ isCallActive = FALSE
    /\ isProcessingResponse = FALSE
    /\ activeCall = FALSE
    /\ pendingTranscript = <<>>
    /\ lastResponse = 0
    /\ lastTranscriptTime = 0
    /\ transcriptHistory = <<>>
    /\ responseCache = {}
    /\ handlers = <<>>
    /\ updates = <<>>
    /\ cycles = <<>>
    /\ handoffs = <<>>
    /\ rejects = 0
    /\ conversations = [id \in CallIds |-> NoConversation]
    /\ activeCalls = [id \in CallIds |-> 0]
    /\ connections = <<>>
    /\ endSignals = {}
    /\ streams = <<>>
    /\ recognizeStream = 0
    /\ frames = <<>>
    /\ retry = NoRetry

Greetings(history) ==
    Cardinality({e \in 1..Len(history) : history[e].speaker = "ai" /\ history[e].text = greeting})

SessionTick ==
    /\ NoConnAckDue
    /\ ticks < MaxTicks
    /\ ticks' = ticks + 1
    /\ \E d \in TickSteps : clock' = clock + d
    /\ UNCHANGED <<isCallActive, isProcessingResponse, activeCall, pendingTranscript,
                   lastResponse, lastTranscriptTime, transcriptHistory, responseCache,
                   handlers, updates, cycles, handoffs, rejects, serverVars, streamVars, retry>>

\* POST /voice for a call id
IncomingCallOf(callSid) ==
    /\ NoConnAckDue
    /\ callSid \notin endSignals
    /\ Greetings(conversations[callSid].transcriptHistory) < MaxStarts
    /\ ServerBecomes(handleIncomingCall(Server, callSid))
    /\ UNCHANGED <<clock, ticks>>

IncomingCall == \E callSid \in CallIds : IncomingCallOf(callSid)

\* wss.on('connection'): the media socket of a call that was answered connects
MediaStreamStartOf(callSid) ==
    /\ NoConnAckDue
    /\ Len(connections) < MaxConnections
    /\ callSid \notin endSignals
    /\ conversations[callSid].exists
    /\ ServerBecomes(handleMediaStream(Server, callSid))
    /\ UNCHANGED <<clock, ticks>>

MediaStreamStart == \E callSid \in CallIds : MediaStreamStartOf(callSid)

\* stream.on('data') of connection c
SessionDataOf(c) ==
    /\ NoConnAckDue
    /\ ~connections[c].destroyed
    /\ ServerSegments < MaxCallSegments
    /\ \E seg \in SegmentMenu :
        \E w \in {Settle(OnData(Bind(Server, c), seg.text, seg.isFinal))} :
            ServerBecomes(Unbind(Server, c, w))
    /\ UNCHANGED <<clock, ticks>>

SessionData == \E c \in 1..Len(connections) : SessionDataOf(c)

\* the generator's stream yields a chunk, ends or fails, for a cycle of connection c
SessionGeneratorOf(c) ==
    /\ NoConnAckDue
    /\ \E h \in 1..Len(connections[c].world.handlers) :
        LET hr == connections[c].world.handlers[h]
        IN /\ hr.gen = "stream"
           /\ \E outcome \in (IF hr.outcome = NoOutcome THEN Outcomes ELSE {hr.outcome}) :
                \E w \in {Settle(GenEvent(Bind(Server, c), h, outcome))} :
                    ServerBecomes(Unbind(Server, c, w))
    /\ UNCHANGED <<clock, ticks>>

SessionGenerator == \E c \in 1..Len(connections) : SessionGeneratorOf(c)

\* an acknowledgment timer of connection c fires
SessionAckTimerOf(c) ==
    /\ \E h \in 1..Len(connections[c].world.handlers) :
        /\ ConnAckDue(c, h)
        /\ \E w \in {Settle(RaceTimeout(Bind(Server, c), h))} :
                ServerBecomes(Unbind(Server, c, w))
    /\ UNCHANGED <<clock, ticks>>

SessionAckTimer == \E c \in 1..Len(connections) : SessionAckTimerOf(c)

\* the channel answers an update of connection c
SessionUpdateAnsweredOf(c) ==
    /\ NoConnAckDue
    /\ \E u \in InFlight(connections[c].world.updates), ok \in BOOLEAN :
        /\ ~ok => connections[c].world.rejects < MaxRejects
        /\ \E w \in {Settle(Answered(Bind(Server, c), u, ok))} :
                ServerBecomes(Unbind(Server, c, w))
    /\ UNCHANGED <<clock, ticks>>

SessionUpdateAnswered == \E c \in 1..Len(connections) : SessionUpdateAnsweredOf(c)

\* ws.on('close') and ws.on('error') of connection c
SocketClosesOf(c) ==
    /\ NoConnAckDue
    /\ connections[c].ws # "closed"
    /\ ServerBecomes(cleanupCallOfCall(
           [Server EXCEPT !.connections[c].ws = "closed",
                          !.connections[c].world.isCallActive = FALSE],
           connections[c].callSid))
    /\ UNCHANGED <<clock, ticks>>

SocketCloses == \E c \in 1..Len(connections) : SocketClosesOf(c)

\* POST /voice/status with CallStatus completed or failed, which the telephony
\* service sends once for a call it has announced
EndCallOf(callSid) ==
    /\ NoConnAckDue
    /\ conversations[callSid].exists
    /\ callSid \notin endSignals
    /\ ServerBecomes(endCall(Server, callSid))
    /\ UNCHANGED <<clock, ticks>>

EndCall == \E callSid \in CallIds : EndCallOf(callSid)

SessionNext ==
    \/ SessionTick \/ IncomingCall \/ MediaStreamStart \/ SessionData \/ SessionGenerator
    \/ SessionAckTimer \/ SessionUpdateAnswered \/ SocketCloses \/ EndCall

SessionSpec == SessionInit /\ [][SessionNext]_vars

(***************************************************************************)
(* Two calls that ask the same question of the one response generator      *)
(***************************************************************************)
\* stream.on('data') of connection c with the question as a final segment
SharedDataOf(c) ==
    /\ NoConnAckDue
    /\ ~connections[c].destroyed
    /\ ServerSegments < MaxServerSegments
    /\ \E w \in {Settle(OnData(Bind(Server, c), U_reset, TRUE))} :
            ServerBecomes(Unbind(Server, c, w))
    /\ UNCHANGED <<clock, ticks>>

SharedData == \E c \in 1..Len(connections) : SharedDataOf(c)

\* the server after construction
NewServer ==
    [conversations |-> [id \in CallIds |-> NoConversation],
     activeCalls |-> [id \in CallIds |-> 0],
     connections |-> <<>>, endSignals |-> {}, responseCache |-> {}]

\* POST /voice and the connection of the media socket, for a call id
AnswerCall(s, callSid) == handleMediaStream(handleIncomingCall(s, callSid), callSid)

\* the server with both calls answered and their media sockets connected
TwoCalls == AnswerCall(AnswerCall(NewServer, "CA1"), "CA2")

SharedInit ==
    /\ clock = 0
    /\ ticks = 0
    /\ isCallActive = FALSE
    /\ isProcessingResponse = FALSE
    /\ activeCall = FALSE
    /\ pendingTranscript = <<>>
    /\ lastResponse = 0
    /\ lastTranscriptTime = 0
    /\ transcriptHistory = <<>>
    /\ responseCache = TwoCalls.responseCache
    /\ handlers = <<>>
    /\ updates = <<>>
    /\ cycles = <<>>
    /\ handoffs = <<>>
    /\ rejects = 0
    /\ conversations = TwoCalls.conversations
    /\ activeCalls = TwoCalls.activeCalls
    /\ connections = TwoCalls.connections
    /\ endSignals = TwoCalls.endSignals
    /\ streams = <<>>
    /\ recognizeStream = 0
    /\ frames = <<>>
    /\ retry = NoRetry

SharedNext ==
    \/ SessionTick \/ SharedData \/ SessionGenerator
    \/ SessionAckTimer \/ SessionUpdateAnswered

SharedSpec == SharedInit /\ [][SharedNext]_vars

(***************************************************************************)
(* The media frames and the recognition streams of one call                *)
(***************************************************************************)
\* what the 'message' handler and the 'error' handler of a stream read and write
Media ==
    [isCallActive |-> isCallActive, activeCall |-> activeCall,
     streams |-> streams, recognizeStream |-> recognizeStream, frames |-> frames]

MediaBecomes(m) ==
    /\ isCallActive' = m.isCallActive
    /\ activeCall' = m.activeCall
    /\ streams' = m.streams
    /\ recognizeStream' = m.recognizeStream
    /\ frames' = m.frames
    /\ UNCHANGED <<isProcessingResponse, pendingTranscript, lastResponse, lastTranscriptTime,
                   transcriptHistory, responseCache, handlers, updates, cycles, handoffs,
                   rejects, serverVars, clock, ticks, retry>>

\* recognizeStream = googleSpeech.createStreamingRecognition();
\* callData.recognizeStream = recognizeStream
createStreamingRecognition(m) ==
    [m EXCEPT !.streams = Append(@, [state |-> "writable", subscribed |-> FALSE]),
              !.recognizeStream = Len(m.streams) + 1]

\* setupRecognitionStreamHandler(recognizeStream, callSid, callData):
\* stream.on('data') and stream.on('error')
setupRecognitionStreamHandler(m) ==
    [m EXCEPT !.streams[m.recognizeStream].subscribed = TRUE]

RecreateStream(m) == setupRecognitionStreamHandler(createStreamingRecognition(m))

\* cleanupCall as the media handlers call it: the stream of the record is
\* destroyed and the record deleted
cleanupCallOfMedia(m) ==
    IF m.activeCall
    THEN [m EXCEPT !.streams[m.recognizeStream].state = "destroyed", !.activeCall = FALSE]
    ELSE m

\* the errors recognizeStream.write may throw: none, one whose message holds
\* EPIPE or ERR_STREAM_DESTROYED, or another one
WriteErrors == {"none", "recoverable", "other"}

\* the catch of the 'message' handler (lines 164-181); the frame was not written
onMessageCatch(m, thrown) ==
    IF thrown = "recoverable"
    THEN IF m.activeCall /\ m.isCallActive THEN RecreateStream(m) ELSE m
    ELSE cleanupCallOfMedia([m EXCEPT !.isCallActive = FALSE])

\* ws.on('message') with a message of event 'media' (lines 131-163)
onMediaMessage(m, thrown) ==
    IF ~m.isCallActive THEN m
    ELSE IF m.streams[m.recognizeStream].state # "destroyed"
    THEN LET m1 == IF m.streams[m.recognizeStream].state # "writable" THEN RecreateStream(m) ELSE m
         IN IF thrown = "none"
            THEN [m1 EXCEPT !.frames = Append(@, m1.recognizeStream)]
            ELSE [onMessageCatch(m1, thrown) EXCEPT !.frames = Append(@, 0)]
    ELSE [m EXCEPT !.frames = Append(@, 0)]

\* the codes of the errors a stream may emit
ErrorCodes == {"ERR_STREAM_DESTROYED", "other"}

\* stream.on('error') (lines 665-675); callData is the record the handler was
\* set up with
onStreamError(m, code) ==
    IF code # "ERR_STREAM_DESTROYED" /\ m.isCallActive THEN RecreateStream(m) ELSE m

\* a media frame of the telephony layer arrives
MediaFrame ==
    /\ NoAckDue
    /\ Len(frames) < MaxFrames
    /\ \E thrown \in WriteErrors : MediaBecomes(onMediaMessage(Media, thrown))

\* the stream in use stops being writable, or is destroyed, and emits no error
StreamFault ==
    /\ NoAckDue
    /\ Len(streams) < MaxStreams
    /\ streams[recognizeStream].state # "destroyed"
    /\ \E state \in {"unwritable", "destroyed"} :
        /\ state # streams[recognizeStream].state
        /\ MediaBecomes([Media EXCEPT !.streams[recognizeStream].state = state])

\* a stream of the call is destroyed with an error, which its 'error' handler gets
StreamErrorOf(st, code) ==
    /\ NoAckDue
    /\ Len(streams) < MaxStreams
    /\ streams[st].subscribed
    /\ streams[st].state # "destroyed"
    /\ MediaBecomes(onStreamError([Media EXCEPT !.streams[st].state = "destroyed"], code))

StreamError == \E st \in 1..Len(streams), code \in ErrorCodes : StreamErrorOf(st, code)

\* stream.on('data') of a stream of the call that is subscribed and not destroyed
StreamData ==
    /\ NoAckDue
    /\ Len(handlers) < MaxStreamSegments
    /\ \E st \in 1..Len(streams) : streams[st].subscribed /\ streams[st].state # "destroyed"
    /\ \E seg \in SegmentMenu :
        \E w \in {Settle(OnData(World, seg.text, seg.isFinal))} : Becomes(w)
    /\ UNCHANGED <<clock, ticks>>

StreamNext ==
    \/ Tick \/ StreamData \/ Generator \/ AckTimer \/ UpdateAnswered \/ CallEnds
    \/ MediaFrame \/ StreamFault \/ StreamError

StreamSpec == Init /\ [][StreamNext]_vars

(***************************************************************************)
(* One call that the status webhook ends while its media socket is open    *)
(***************************************************************************)
\* endCall(callSid) of the status webhook: cleanupCall without the closure
\* variable isCallActive, which only the handlers of the socket clear
endCallOfMedia(m) == cleanupCallOfMedia(m)

\* POST /voice/status with a final status
EndCallOfMedia ==
    /\ activeCall
    /\ MediaBecomes(endCallOfMedia(Media))

\* the stream that cleanupCall destroyed emits an error, which its 'error'
\* handler gets after the cleanup
LateStreamError ==
    /\ ~activeCall
    /\ Len(streams) < MaxStreams
    /\ streams[recognizeStream].subscribed
    /\ streams[recognizeStream].state = "destroyed"
    /\ \E code \in ErrorCodes : MediaBecomes(onStreamError(Media, code))

EndCallNext ==
    \/ MediaFrame \/ StreamFault \/ StreamError \/ EndCallOfMedia \/ LateStreamError \/ CallEnds

EndCallSpec == Init /\ [][EndCallNext]_vars

(***************************************************************************)
(* One call whose caller utters fillers after the opening question         *)
(***************************************************************************)
\* stream.on('data') with the segment seg
FillerDataOf(seg) ==
    /\ NoAckDue
    /\ activeCall
    /\ Len(handlers) < MaxSegments
    /\ \E w \in {Settle(OnData(World, seg.text, seg.isFinal))} : Becomes(w)
    /\ UNCHANGED <<clock, ticks>>

\* the first segment is the opening question, the later ones begin with a filler
FillerData ==
    \E seg \in (IF handlers = <<>> THEN {[text |-> U_reset, isFinal |-> TRUE]} ELSE FillerMenu) :
        FillerDataOf(seg)

FillerNext == Tick \/ FillerData \/ Generator \/ AckTimer \/ UpdateAnswered \/ CallEnds

FillerSpec == Init /\ [][FillerNext]_vars

(***************************************************************************)
(* One call with one question, answered by a reply of several chunks       *)
(***************************************************************************)
\* stream.on('data') with the question as a final segment
ChunkData ==
    /\ NoAckDue
    /\ activeCall
    /\ Len(handlers) < MaxStreamSegments
    /\ \E w \in {Settle(OnData(World, U_reset, TRUE))} : Becomes(w)
    /\ UNCHANGED <<clock, ticks>>

\* the generator's stream yields a chunk of the reply, or ends
ChunkGenerator ==
    /\ NoAckDue
    /\ \E h \in 1..Len(handlers) :
        /\ handlers[h].gen = "stream"
        /\ \E outcome \in (IF handlers[h].outcome = NoOutcome THEN ChunkOutcomes ELSE {handlers[h].outcome}) :
            \E w \in {Settle(GenEvent(World, h, outcome))} : Becomes(w)
    /\ UNCHANGED <<clock, ticks>>

ChunkNext == Tick \/ ChunkData \/ ChunkGenerator \/ AckTimer \/ UpdateAnswered \/ CallEnds

ChunkSpec == Init /\ [][ChunkNext]_vars

(***************************************************************************)
(* One call whose caller asks the same question again                      *)
(***************************************************************************)
MaxRepeatSegments == 3

\* the question in another letter case and with surrounding whitespace
U_RESET == <<" "," ","h","o","w"," ","d","o"," ","I"," ","R","E","S","E","T"," ","m","y"," ","p","a","s","s","w","o","r","d","?"," ">>

\* stream.on('data') with a final segment: the question, and after it the
\* question in its other form
RepeatData ==
    /\ NoAckDue
    /\ activeCall
    /\ Len(handlers) < MaxRepeatSegments
    /\ \E w \in {Settle(OnData(World, IF handlers = <<>> THEN U_reset ELSE U_RESET, TRUE))} :
          Becomes(w)
    /\ UNCHANGED <<clock, ticks>>

\* two replies the generator may give to the question, each in one chunk
PlanLink == << <<"U","s","e"," ","t","h","e"," ","F","o","r","g","o","t"," ","P","a","s","s","w","o","r","d"," ","l","i","n","k",".">> >>

RepeatOutcomes ==
    {[kind |-> "stream", chunks |-> <<RetryReply>>],
     [kind |-> "stream", chunks |-> PlanLink]}

\* the generator's stream yields the reply, or ends
RepeatGenerator ==
    /\ NoAckDue
    /\ \E h \in 1..Len(handlers) :
        /\ handlers[h].gen = "stream"
        /\ \E outcome \in (IF handlers[h].outcome = NoOutcome THEN RepeatOutcomes ELSE {handlers[h].outcome}) :
            \E w \in {Settle(GenEvent(World, h, outcome))} : Becomes(w)
    /\ UNCHANGED <<clock, ticks>>

\* the channel accepts an update that is in flight
RepeatAccepted ==
    /\ NoAckDue
    /\ \E u \in InFlight(updates) :
        \E w \in {Settle(Answered(World, u, TRUE))} : Becomes(w)
    /\ UNCHANGED <<clock, ticks>>

RepeatNext == Tick \/ RepeatData \/ RepeatGenerator \/ AckTimer \/ RepeatAccepted

RepeatSpec == Init /\ [][RepeatNext]_vars

(***************************************************************************)
(* One call whose caller speaks in fragments and pauses                    *)
(***************************************************************************)
\* stream.on('data') with the segment seg
PauseDataOf(seg) ==
    /\ NoAckDue
    /\ activeCall
    /\ Len(handlers) < MaxSegments
    /\ \E w \in {Settle(OnData(World, seg.text, seg.isFinal))} : Becomes(w)
    /\ UNCHANGED <<clock, ticks>>

PauseData == \E seg \in PauseMenu : PauseDataOf(seg)

PauseNext == Tick \/ PauseData \/ Generator \/ AckTimer \/ UpdateAnswered \/ CallEnds

PauseSpec == Init /\ [][PauseNext]_vars

(***************************************************************************)
(* One invocation of callGeminiWithRetry                                   *)
(***************************************************************************)
\* the queries a prompt is made for: the first matches no common question, the
\* second matches one
U_forgot == <<"I"," ","f","o","r","g","o","t"," ","p","a","s","s","w","o","r","d"," ","a","g","a","i","n">>
RetryQueries == {U_reset, U_forgot}

KB_article == <<"A","r","t","i","c","l","e",":"," ","S","i","g","n","i","n","g"," ","i","n","."," ","U","s","e"," ","t","h","e"," ","l","i","n","k"," ","o","n"," ","t","h","e"," ","l","o","g","i","n"," ","p","a","g","e",".">>
RetryHistories == {<<>>, <<"a","i",":"," ">> \o greeting}

\* the prompts the function may be given for a query: the prompt
\* generateResponse constructs for it, or the query alone
RetryPrompts(query) ==
    {constructPrompt(KB_article, hist, query) : hist \in RetryHistories} \cup {query}

CachedReply == <<"U","s","e"," ","t","h","e"," ","F","o","r","g","o","t"," ","P","a","s","s","w","o","r","d"," ","l","i","n","k",".">>

\* the response cache at the call: empty, or holding the response that
\* generateResponse stored for the query that matches no common question
\* (lines 316, 410; a query that matches one is answered before the cache)
RetryCaches ==
    {{}, cacheResponse({}, generateCacheKey(U_reset), CachedReply)}

RetryInit ==
    /\ clock = RATE_LIMIT_DELAY
    /\ ticks = 0
    /\ isCallActive = TRUE
    /\ isProcessingResponse = FALSE
    /\ activeCall = TRUE
    /\ pendingTranscript = <<>>
    /\ lastResponse = 0
    /\ lastTranscriptTime = 0
    /\ transcriptHistory = << [speaker |-> "ai", text |-> greeting, cyc |-> 0] >>
    /\ responseCache \in RetryCaches
    /\ handlers = <<>>
    /\ updates = <<>>
    /\ cycles = <<>>
    /\ handoffs = <<>>
    /\ rejects = 0
    /\ conversations = [id \in CallIds |-> NoConversation]
    /\ activeCalls = [id \in CallIds |-> 0]
    /\ connections = <<>>
    /\ endSignals = {}
    /\ streams = << [state |-> "writable", subscribed |-> TRUE] >>
    /\ recognizeStream = 1
    /\ frames = <<>>
    /\ retry \in {[NoRetry EXCEPT !.lastGeminiCall = t] : t \in {0, RATE_LIMIT_DELAY}}

RetryBecomes(r) ==
    /\ retry' = r
    /\ clock' = r.now
    /\ UNCHANGED <<ticks, isCallActive, isProcessingResponse, activeCall, pendingTranscript,
                   lastResponse, lastTranscriptTime, transcriptHistory, responseCache,
                   handlers, updates, cycles, handoffs, rejects, serverVars, streamVars>>

\* callGeminiWithRetry is called
RetryCall ==
    /\ retry.pc = "idle"
    /\ \E query \in RetryQueries :
        \E prompt \in RetryPrompts(query) :
            RetryBecomes(callGeminiWithRetry(retry, responseCache, prompt, query,
                                             DefaultMaxRetries, clock))

\* the race of generateContent and the timer is over
RetryRace ==
    /\ retry.pc = "generate"
    /\ \E outcome \in GenerateOutcomes :
        RetryBecomes(RetryGenerated(retry, responseCache, outcome))

\* the fallback model answers or fails
RetryFallback ==
    /\ retry.pc = "fallback"
    /\ \E ok \in BOOLEAN :
        RetryBecomes(RetryFallbackAnswered(retry, responseCache, ok))

RetryNext == RetryCall \/ RetryRace \/ RetryFallback

RetrySpec == RetryInit /\ [][RetryNext]_vars

(***************************************************************************)
(* The properties checked                                                  *)
(***************************************************************************)
\* the updates that carry text of a generated reply
ReplyKinds == {"first", "chunk", "intChunk", "immediate", "remaining"}

\* cycle c was started, and after it a confirmed interruption started a cycle
\* no later than cycle e
InterruptedBefore(c, e) == \E n \in (c + 1)..e : cycles[n].origin = "interruption"

\* C1: every reply chunk handed to the call-control channel belongs to the
\* cycle that is the most recently started one at the moment of dispatch: once
\* a confirmed interruption has started a newer cycle, no stream-callback
\* chunk, immediate full response or remaining-content flush of an older cycle
\* is dispatched.
C1_DispatchOfNewestCycleOnly ==
    \A u \in 1..Len(updates) :
        updates[u].kind \in ReplyKinds => ~InterruptedBefore(updates[u].cyc, updates[u].epoch)

\* C2: the 'data' handler invocation that confirms an interruption starts
\* exactly one cycle, the one for the interrupting text; it never also starts a
\* cycle for the pending-transcript buffer, whether the interruption's
\* generation succeeds or fails.
C2_InterruptionStartsOneCycle ==
    \A i \in 1..Len(cycles) :
        cycles[i].origin = "interruption" =>
            \A j \in 1..Len(cycles) : cycles[j].h = cycles[i].h => j = i

\* C3: at most one call-control update is in flight at any time, among those
\* of the soft-interruption handler, the stream callbacks, the
\* acknowledgment-timer branch, the remaining-content flush and the error
\* handlers.
C3_OneUpdateInFlight ==
    Cardinality({u \in InFlight(updates) :
                    updates[u].kind \in {"soft", "first", "chunk", "intChunk", "filler",
                                         "redirect", "remaining", "recovery", "repeat"}}) <= 1

\* C4: two cycles started by the completion gate are at least the cooldown
\* apart: a second completion trigger within 400 ms of the first starts no
\* cycle, also when it is a final segment arriving while the first cycle is
\* still generating.
C4_CooldownBetweenCycles ==
    \A i \in 1..Len(cycles), j \in 1..Len(cycles) :
        (i < j /\ cycles[i].origin = "gate" /\ cycles[j].origin = "gate")
            => cycles[j].at - cycles[i].at >= CooldownMs

\* C5: once a cycle's generator has produced nothing for the acknowledgment
\* delay (and the timer callback, where one is due, has run), and the utterance
\* is not in the unrelated-topic set, exactly one "One moment." filler has been
\* dispatched for the cycle.
C5_OneFillerAfterSilentDelay ==
    \A c \in 1..Len(cycles) :
        LET h == cycles[c].h
        IN (/\ handlers[h].cyc = c
            /\ handlers[h].gen = "stream"
            /\ handlers[h].idx = 0
            /\ clock - cycles[c].at >= ACKNOWLEDGMENT_DELAY
            /\ ~AckDue(h)
            /\ ~isObviouslyUnrelated(cycles[c].text))
           => Cardinality({u \in 1..Len(updates) :
                              updates[u].cyc = c /\ updates[u].kind = "filler"}) = 1

\* C6: no generation cycle is started for text that contains a goodbye phrase
\* and no continuation cue, whether the text comes from the pending buffer or is
\* the text of a confirmed interruption.
C6_GoodbyeTextStartsNoCycle ==
    \A c \in 1..Len(cycles) : ~isGoodbyeMessage(cycles[c].text)

HasGoodbyePhrase(text) ==
    \E phrase \in goodbyePhrases : includes(trim(toLowerCase(text)), phrase)

HasContinuationCue(text) ==
    \E cue \in continuationCues : includes(trim(toLowerCase(text)), cue)

\* the handler that handed utterance k over treated it as goodbye: it took the
\* goodbye branch, or dispatched the hangup, or started no cycle for it
TreatedAsGoodbye(k) ==
    \/ handoffs[k].branch # "generate"
    \/ \E u \in 1..Len(updates) :
          updates[u].h = handoffs[k].h /\ updates[u].kind = "goodbye"
    \/ ~\E c \in 1..Len(cycles) :
           /\ cycles[c].h = handoffs[k].h
           /\ cycles[c].origin = "gate"
           /\ cycles[c].text = handoffs[k].text

\* C7: an utterance handed over by the completion gate that contains a goodbye
\* phrase together with a continuation cue is never treated as goodbye: the
\* handler that handed it over dispatches no hangup and so does not end the
\* session, and it starts a generation cycle for that utterance.
C7_CueOverridesGoodbye ==
    \A k \in 1..Len(handoffs) :
        TreatedAsGoodbye(k) =>
            ~(HasGoodbyePhrase(handoffs[k].text) /\ HasContinuationCue(handoffs[k].text))

\* C7, its case: "Thanks for the help, I have another question" was judged
\* complete, handed over, and went to generation
C7_CueUtteranceGenerated ==
    \E k \in 1..Len(handoffs) :
        /\ handoffs[k].text = U_cue
        /\ HasGoodbyePhrase(U_cue) /\ HasContinuationCue(U_cue)
        /\ ~TreatedAsGoodbye(k)

\* C8: in every cycle, the first chunk the stream callback dispatches is a
\* complete sentence: it ends in terminal punctuation and has at least the
\* minimum length of a first chunk.
C8_FirstChunkIsSentence ==
    \A u \in 1..Len(updates) :
        (/\ updates[u].kind \in {"first", "intChunk"}
         /\ \A v \in 1..(u - 1) :
               ~(updates[v].cyc = updates[u].cyc /\ updates[v].kind \in ReplyKinds))
        => /\ EndsWithTerminator(trim(updates[u].text))
           /\ Len(trim(updates[u].text)) >= FirstChunkMinLength

\* every handler has returned, every generateResponse call has settled and no
\* update is in flight: nothing more happens for the cycles started so far
Quiescent ==
    /\ \A h \in 1..Len(handlers) : handlers[h].pc = "done" /\ GenSettled(handlers[h])
    /\ InFlight(updates) = {}

\* cycle c was abandoned: a confirmed interruption started a later cycle, or a
\* soft interruption was issued after c had started
Interrupted(c) ==
    \/ InterruptedBefore(c, Len(cycles))
    \/ \E u \in 1..Len(updates) : updates[u].kind = "soft" /\ updates[u].epoch >= c

\* C9: a cycle that was neither interrupted nor cut off by the end of the call
\* has dispatched some spoken text (a reply, a filler, a fallback or a recovery
\* message) by the time nothing more can happen for it.
C9_EveryCycleSpeaks ==
    (isCallActive /\ Quiescent) =>
        \A c \in 1..Len(cycles) :
            ~Interrupted(c) =>
                \E u \in 1..Len(updates) : updates[u].cyc = c /\ updates[u].text # <<>>

\* C10: every assistant entry a cycle appends to the history was preceded by
\* the dispatch of text of that cycle's reply.
C10_HistoryWasDispatched ==
    \A e \in 1..Len(transcriptHistory) :
        (transcriptHistory[e].speaker = "ai" /\ transcriptHistory[e].cyc > 0) =>
            \E u \in 1..Len(updates) :
                updates[u].cyc = transcriptHistory[e].cyc /\ updates[u].kind \in ReplyKinds
\* C11: the pending-transcript buffer is empty immediately after every handoff of
\* an utterance (a pass of the completion gate), and it is emptied at no other
\* moment
C11_BufferClearedAtHandoff ==
    [][/\ (Len(handoffs') > Len(handoffs) => pendingTranscript' = <<>>)
       /\ ((pendingTranscript # <<>> /\ pendingTranscript' = <<>>) => Len(handoffs') > Len(handoffs))]_vars

\* C12: once the call has ended, no update is dispatched, no generation cycle is
\* started and no history entry is appended
C12_EndedIsTerminal ==
    [][~isCallActive => /\ Len(updates') = Len(updates)
                        /\ Len(cycles') = Len(cycles)
                        /\ Len(transcriptHistory') = Len(transcriptHistory)]_vars

\* the cycle of handler h was abandoned: a confirmed interruption has started a
\* newer cycle
Abandoned(h) == handlers[h].cyc > 0 /\ InterruptedBefore(handlers[h].cyc, Len(cycles))

\* C17: when the handler of an abandoned cycle runs to its end, the history, the
\* cooldown timestamp, the reply-in-flight flag and the pending buffer stay as
\* they are
C17_AbandonedCycleLeavesSession ==
    [][\A h \in 1..Len(handlers) :
          (/\ Len(handlers') = Len(handlers)
           /\ Abandoned(h)
           /\ handlers[h].pc # "done"
           /\ handlers'[h].pc = "done")
          => UNCHANGED <<transcriptHistory, lastResponse, isProcessingResponse, pendingTranscript>>]_vars

\* C18: when no handler, no generateResponse call and no update is pending any
\* more, the reply-in-flight flag is clear
C18_ReplyInFlightCleared == Quiescent => ~isProcessingResponse

\* an update submitted before cycle c was started has been rejected
RejectedBefore(c) ==
    \E u \in 1..Len(updates) : updates[u].status = "rejected" /\ updates[u].epoch < c

\* the text of cycle c begins with an utterance that was handed over before
CarriesOlderUtterance(c) ==
    \E k \in 1..Len(handoffs) :
        /\ handoffs[k].h < cycles[c].h
        /\ Len(handoffs[k].text) < Len(cycles[c].text)
        /\ startsWith(cycles[c].text, handoffs[k].text)

\* C20: after an update was rejected the session is still registered while the
\* call goes on, the reply-in-flight flag is clear once nothing is pending, and
\* a cycle started afterwards is for the new utterance alone
C20_RejectedUpdateLeavesSessionUsable ==
    /\ (rejects > 0 /\ isCallActive) => activeCall
    /\ (rejects > 0 /\ Quiescent) => ~isProcessingResponse
    /\ \A c \in 1..Len(cycles) :
          (cycles[c].origin = "gate" /\ RejectedBefore(c)) => ~CarriesOlderUtterance(c)

\* C13: once the call-ended signal of a call id has been processed, the id has
\* no active-call record and no conversation, and none of its generateResponse
\* calls is still pending
C13_EndedCallHasNoSession ==
    \A callSid \in endSignals :
        /\ activeCalls[callSid] = 0
        /\ ~conversations[callSid].exists
        /\ \A c \in 1..Len(connections) :
              connections[c].callSid = callSid =>
                  \A h \in 1..Len(connections[c].world.handlers) :
                      GenSettled(connections[c].world.handlers[h])

\* C14: a call-started webhook for a call id that has a conversation leaves its
\* history as it is; a media-stream start for a call id that has an active-call
\* record leaves the record in place; and the closing of a socket that is not
\* the one recorded for its call id leaves the record in place
C14_SessionCreationIdempotent ==
    [][\A callSid \in CallIds :
          /\ (IncomingCallOf(callSid) /\ conversations[callSid].exists)
                => conversations'[callSid] = conversations[callSid]
          /\ (MediaStreamStartOf(callSid) /\ activeCalls[callSid] # 0)
                => activeCalls'[callSid] = activeCalls[callSid]
          /\ \A c \in 1..Len(connections) :
                (/\ SocketClosesOf(c)
                 /\ connections[c].callSid = callSid
                 /\ activeCalls[callSid] \notin {0, c})
                => activeCalls'[callSid] = activeCalls[callSid]]_vars

\* C15: cleanupCall and endCall applied twice to a call id leave what one
\* application leaves, and cleanupCall of a call id without an active-call
\* record leaves the server as it is
C15_CleanupIdempotent ==
    \A callSid \in CallIds :
        /\ cleanupCallOfCall(cleanupCallOfCall(Server, callSid), callSid) = cleanupCallOfCall(Server, callSid)
        /\ endCall(endCall(Server, callSid), callSid) = endCall(Server, callSid)
        /\ activeCalls[callSid] = 0 => cleanupCallOfCall(Server, callSid) = Server

\* a call whose record was cleaned up by the call-ended signal and by the close
\* of its socket, and a call that ended without a media stream
C15_CleanedUpTwiceAndWithoutRecord ==
    /\ \E c \in 1..Len(connections) :
          connections[c].ws = "closed" /\ connections[c].callSid \in endSignals
    /\ \E callSid \in endSignals :
          \A c \in 1..Len(connections) : connections[c].callSid # callSid

\* what the server holds for a call id
SessionOf(callSid) ==
    [conversation |-> conversations[callSid],
     record |-> activeCalls[callSid],
     connections |-> [c \in {n \in 1..Len(connections) : connections[n].callSid = callSid}
                        |-> connections[c]]]

\* the step is an event of call id a
EventOf(a) ==
    \/ IncomingCallOf(a)
    \/ MediaStreamStartOf(a)
    \/ EndCallOf(a)
    \/ \E c \in 1..Len(connections) :
          /\ connections[c].callSid = a
          /\ \/ SessionDataOf(c)
             \/ SessionGeneratorOf(c)
             \/ SessionAckTimerOf(c)
             \/ SessionUpdateAnsweredOf(c)
             \/ SocketClosesOf(c)

IsPrefix(a, b) == Len(a) <= Len(b) /\ SubSeq(b, 1, Len(a)) = a

\* C19: the history of a conversation only grows at its end: in every step the
\* earlier history is a prefix of the later one, and the conversation stays
C19_HistoryAppendOnly ==
    [][/\ IsPrefix(transcriptHistory, transcriptHistory')
       /\ \A callSid \in CallIds :
             conversations[callSid].exists =>
                 /\ conversations'[callSid].exists
                 /\ IsPrefix(conversations[callSid].transcriptHistory,
                             conversations'[callSid].transcriptHistory)]_vars

\* a conversation that was initialized twice and holds the entries of a cycle
C19_HistoryOfRestartedCall ==
    \E callSid \in CallIds :
        LET history == conversations[callSid].transcriptHistory
        IN /\ Greetings(history) = 2
           /\ \E e \in 1..Len(history) : history[e].speaker = "user"
           /\ \E e \in 1..Len(history) : history[e].speaker = "ai" /\ history[e].cyc > 0

\* the stream in use takes audio and its segments and errors are heard
StreamInUseIsLive ==
    /\ streams[recognizeStream].state = "writable"
    /\ streams[recognizeStream].subscribed

\* C21: a media frame handled, or a stream error heard, while the call is active
\* leaves the call active with a stream in use that is writable and subscribed,
\* so that the frames that follow are written to it, and leaves the pending
\* buffer, the reply-in-flight flag and the history as they are
C21_StreamFaultRecovered ==
    [][(isCallActive /\ activeCall /\ (MediaFrame \/ StreamError)) =>
          /\ isCallActive' /\ activeCall'
          /\ StreamInUseIsLive'
          /\ UNCHANGED <<pendingTranscript, isProcessingResponse, transcriptHistory>>]_vars

C23_SoftInterruptionSilencesReply ==
    \A u \in 1..Len(updates) :
        updates[u].kind = "soft" =>
            /\ \A v \in (u + 1)..Len(updates) :
                  ~(/\ updates[v].kind \in ReplyKinds
                    /\ updates[v].cyc > 0
                    /\ updates[v].cyc <= updates[u].epoch)
            /\ \A v \in 1..Len(updates) :
                  (updates[v].h = updates[u].h /\ updates[v].kind = "soft") => v = u
            /\ \A c \in 1..Len(cycles) : cycles[c].h # updates[u].h

\* C24: the pending buffer changes only by being emptied or by the text of a
\* final segment being appended to what it holds: no step writes the text of an
\* interim segment into it or replaces its content
C24_BufferGrowsByFinalSegments ==
    [][pendingTranscript' # pendingTranscript =>
          \/ pendingTranscript' = <<>>
          \/ \E seg \in SegmentMenu :
                /\ seg.isFinal
                /\ pendingTranscript' = pendingTranscript \o <<" ">> \o seg.text]_vars

\* C25: a segment that begins with um, uh, okay or oh, interim or final, handled
\* while a reply is in flight leaves the reply in flight, issues no
\* keep-listening update and starts no cycle
C25_FillerIsNoInterruption ==
    [][\A seg \in FillerMenu :
          (/\ MatchesLeadingWord(toLowerCase(seg.text), InterimFillers)
           /\ isProcessingResponse
           /\ FillerDataOf(seg))
          => /\ isProcessingResponse'
             /\ Len(cycles') = Len(cycles)
             /\ Len(updates') = Len(updates)]_vars

\* C26: every cycle started by a confirmed interruption is for a text longer than
\* 15 characters that begins with no filler word and holds no gratitude phrase,
\* and it was started at least the grace period after every dispatch of reply
\* text that preceded it
C26_InterruptionOnlyAfterGrace ==
    \A c \in 1..Len(cycles) :
        cycles[c].origin = "interruption" =>
            /\ Len(cycles[c].text) > RealInterruptionMinLength
            /\ ~MatchesLeadingWord(toLowerCase(cycles[c].text), InterimFillers)
            /\ ~includes(toLowerCase(cycles[c].text), <<"t","h","a","n","k">>)
            /\ \A u \in 1..Len(updates) :
                  (updates[u].kind \in ReplyKinds /\ updates[u].epoch < c)
                      => cycles[c].at - updates[u].at >= InterruptionGraceMs

\* C27: for a cycle that was answered by the redirect message, one redirect and
\* no filler is dispatched, no reply text of the cycle is dispatched after the
\* redirect, and the history holds no assistant entry of the cycle
C27_RedirectEndsCycle ==
    \A u \in 1..Len(updates) :
        updates[u].kind = "redirect" =>
            /\ \A v \in 1..Len(updates) :
                  updates[v].cyc = updates[u].cyc =>
                      /\ updates[v].kind # "filler"
                      /\ (updates[v].kind = "redirect" => v = u)
                      /\ (v > u => updates[v].kind \notin ReplyKinds)
            /\ \A e \in 1..Len(transcriptHistory) :
                  ~(/\ transcriptHistory[e].speaker = "ai"
                    /\ transcriptHistory[e].cyc = updates[u].cyc)

\* the reply text of cycle c dispatched by the first n updates, in order
RECURSIVE SpokenUpTo(_, _)
SpokenUpTo(c, n) ==
    IF n = 0 THEN <<>>
    ELSE IF updates[n].cyc = c /\ updates[n].kind \in ReplyKinds
    THEN SpokenUpTo(c, n - 1) \o updates[n].text
    ELSE SpokenUpTo(c, n - 1)

\* a text without its white space
RECURSIVE Squeeze(_)
Squeeze(s) ==
    IF s = <<>> THEN <<>>
    ELSE IF IsSpace(s[1]) THEN Squeeze(Tail(s))
    ELSE <<s[1]>> \o Squeeze(Tail(s))

\* C28: when, in a call that goes on, a cycle that was not interrupted and none
\* of whose updates was rejected has appended its reply to the history, the reply text dispatched
\* for the cycle, taken in order, is the reply (up to the white space between
\* the chunks): nothing of it is missing and nothing is there twice
C28_ChunksCoverReply ==
    \A e \in 1..Len(transcriptHistory) :
        LET c == transcriptHistory[e].cyc
        IN (/\ isCallActive
            /\ transcriptHistory[e].speaker = "ai"
            /\ c > 0
            /\ ~Interrupted(c)
            /\ \A u \in 1..Len(updates) : updates[u].cyc = c => updates[u].status = "ok")
           => Squeeze(SpokenUpTo(c, Len(updates))) = Squeeze(transcriptHistory[e].text)

\* C29: a final segment handled while no reply is in flight, more than the
\* silence threshold after the previous transcript arrival and past the
\* cooldown, that leaves in the pending buffer a text of at least the length
\* floor has the buffer handed over
C29_SilenceCompletesUtterance ==
    [][\A seg \in PauseMenu :
          (/\ seg.isFinal
           /\ ~isProcessingResponse
           /\ clock - lastTranscriptTime > SilenceThresholdMs
           /\ clock - lastResponse >= CooldownMs
           /\ PauseDataOf(seg)
           /\ Len(trim(pendingTranscript')) >= MinCompleteLength)
          => Len(handoffs') = Len(handoffs) + 1]_vars

\* C30: every utterance handed over by the completion gate, to generation or to
\* the goodbye branch, has at least the 10 characters of the length floor
C30_NoHandoffBelowFloor ==
    \A k \in 1..Len(handoffs) : Len(handoffs[k].text) >= MinCompleteLength

\* the step answers a hangup update that was in flight, with the given status
HangupAnswered(status) ==
    \E u \in 1..Len(updates) :
        /\ updates[u].kind = "goodbye"
        /\ updates[u].status = "inflight"
        /\ Len(updates') >= u
        /\ updates'[u].status = status

\* C31: the session is torn down only by the end of the call from outside or in
\* the step in which the channel accepts a hangup update that was dispatched
\* before, and the step in which a hangup update is rejected tears nothing down
C31_TeardownAfterHangupConfirmed ==
    [][/\ (activeCall /\ ~activeCall') => (CallEnds \/ HangupAnswered("ok"))
       /\ HangupAnswered("rejected") => (activeCall' = activeCall /\ isCallActive' = isCallActive)]_vars

\* a hangup update was rejected and left the session up, and a later one was
\* accepted and tore it down
C31_HangupRejectedThenAccepted ==
    /\ ~activeCall /\ ~isCallActive
    /\ \E u, v \in 1..Len(updates) :
          /\ u < v
          /\ updates[u].kind = "goodbye" /\ updates[u].status = "rejected"
          /\ updates[v].kind = "goodbye" /\ updates[v].status = "ok"

\* the response the cache holds for the query the invocation serves, or NoText
CachedForQuery == CacheLookup(responseCache, generateCacheKey(retry.query))

\* C32: when callGeminiWithRetry has returned after an attempt on the generator
\* failed, a response the cache holds for the query is the reply; with none
\* cached, the answer of a common question the query matches is the reply; and
\* with neither, the reply is a text of the generator or the generic sentence
C32_FallbacksInOrder ==
    (retry.pc = "returned" /\ retry.failed) =>
        IF CachedForQuery # NoText
        THEN retry.source = "cache" /\ retry.result = CachedForQuery
        ELSE IF matchCommonQA(retry.query) # NoText
        THEN retry.source = "commonQA" /\ retry.result = matchCommonQA(retry.query)
        ELSE retry.source \in {"generator", "fallbackModel", "generic"}

\* C33: an invocation of callGeminiWithRetry calls the generator at most
\* maxRetries times, and when it has returned it has returned a reply
C33_BoundedAttemptsThenReply ==
    /\ retry.calls <= retry.maxRetries
    /\ retry.pc = "returned" => retry.result # NoText

\* C34: a later chunk of a cycle, or the update that flushes its remaining
\* content, was dispatched at least the chunk spacing after every update with
\* reply text of the cycle that was dispatched before it and accepted
C34_ChunksSpacedApart ==
    \A u, v \in 1..Len(updates) :
        (/\ u < v
         /\ updates[u].cyc = updates[v].cyc
         /\ updates[u].kind \in ReplyKinds
         /\ updates[u].status = "ok"
         /\ updates[v].kind \in {"chunk", "remaining"})
        => updates[v].at - updates[u].at >= ChunkSpacingMs

\* C35: the completion gate starts no cycle for a text that an earlier cycle was
\* started for (the caller of FillerSpec utters the opening question once, so a
\* second cycle with its text is a second handoff of the same buffer)
C35_UtteranceHandedOnce ==
    \A c, d \in 1..Len(cycles) :
        (c < d /\ cycles[d].origin = "gate") => cycles[d].text # cycles[c].text

\* the step appends the reply of cycle c, started by the gate, to the history:
\* the cycle completes
Completes(c) ==
    /\ Len(transcriptHistory') = Len(transcriptHistory) + 1
    /\ transcriptHistory'[Len(transcriptHistory')].speaker = "ai"
    /\ transcriptHistory'[Len(transcriptHistory')].cyc = c
    /\ cycles[c].origin = "gate"

\* C36: the step in which a cycle completes leaves in the pending buffer what
\* was not handed to that cycle (a buffer that holds another text than the one
\* handed over is not emptied), and the step that handles a final segment while
\* a reply is in flight keeps the segment's text: in the buffer or as the text
\* of a cycle
C36_CompletionKeepsLaterText ==
    [][/\ \A c \in 1..Len(cycles) :
            (Completes(c) /\ trim(pendingTranscript) # cycles[c].text)
            => pendingTranscript' # <<>>
       /\ \A seg \in FillerMenu :
            (seg.isFinal /\ isProcessingResponse /\ FillerDataOf(seg))
            => \/ includes(pendingTranscript', seg.text)
               \/ \E c \in 1..Len(cycles') : cycles'[c].text = trim(seg.text)]_vars

\* C37: in a call that goes on, when the reply of a cycle has been appended to
\* the history, either a chunk of the cycle was dispatched or the whole reply
\* was dispatched in one update
C37_UnspokenReplyDispatchedWhole ==
    \A e \in 1..Len(transcriptHistory) :
        LET c == transcriptHistory[e].cyc
        IN (isCallActive /\ transcriptHistory[e].speaker = "ai" /\ c > 0)
           => \/ \E u \in 1..Len(updates) :
                    updates[u].cyc = c /\ updates[u].kind \in {"first", "chunk", "intChunk"}
              \/ \E u \in 1..Len(updates) :
                    /\ updates[u].cyc = c
                    /\ updates[u].kind \in ReplyKinds
                    /\ updates[u].text = transcriptHistory[e].text

\* C38: once the active-call record of the call is absent, no step creates a
\* transcription stream and the record stays absent
C38_NoStreamAfterCleanup ==
    [][~activeCall => (Len(streams') = Len(streams) /\ ~activeCall')]_vars

\* the step starts a cycle of connection c whose call of generateResponse
\* returns the response the cache holds for its query: the query has no
\* conversational and no canned answer
AnsweredFromCache(c) ==
    LET before == connections[c].world.cycles
        after == connections'[c].world.cycles
        query == after[Len(after)].text
    IN /\ Len(after) = Len(before) + 1
       /\ InstantReply({}, query) = NoText
       /\ CacheLookup(responseCache, generateCacheKey(query)) # NoText

\* a cycle of the call of connection c was started before for a query with the
\* cache key of the query of the cycle the step starts
AskedBefore(c) ==
    LET after == connections'[c].world.cycles
        query == after[Len(after)].text
    IN \E d \in 1..Len(connections) :
          /\ connections[d].callSid = connections[c].callSid
          /\ \E n \in 1..Len(connections[d].world.cycles) :
                generateCacheKey(connections[d].world.cycles[n].text) = generateCacheKey(query)

\* C39: a reply a call gets from the response cache was generated for that
\* call: what other calls asked does not change where a reply comes from
C39_ReplyFromOwnSession ==
    [][\A c \in 1..Len(connections) :
          (SharedDataOf(c) /\ AnsweredFromCache(c)) => AskedBefore(c)]_vars

\* the replies the generator gives to the repeated question
GeneratedReplies == {outcome.chunks[1] : outcome \in RepeatOutcomes}

\* the step calls generateResponse: it starts a cycle
StartsCycle == Len(cycles') = Len(cycles) + 1

\* the call of generateResponse the step makes returns the reply at once:
\* the cycle has the reply as its update or as its history entry, its
\* generator is not started and its stream callback dispatches nothing
ReturnsAtOnce(reply) ==
    LET k == Len(cycles')
    IN /\ handlers'[cycles'[k].h].gen # "stream"
       /\ \A u \in 1..Len(updates') : updates'[u].cyc = k => updates'[u].who # "G"
       /\ \/ \E u \in 1..Len(updates') : updates'[u].cyc = k /\ updates'[u].text = reply
          \/ \E e \in 1..Len(transcriptHistory') :
                transcriptHistory'[e].cyc = k /\ transcriptHistory'[e].text = reply

\* C40: when generateResponse has returned a reply of the generator for a
\* query, a later call of generateResponse for a query equal to it up to
\* letter case and surrounding whitespace returns that reply at once, without
\* the generator and without the stream callback
C40_CacheRoundTrip ==
    [][StartsCycle =>
          \A e \in 1..Len(transcriptHistory) :
              LET j == transcriptHistory[e].cyc
              IN (/\ transcriptHistory[e].speaker = "ai"
                  /\ j > 0
                  /\ transcriptHistory[e].text \in GeneratedReplies
                  /\ generateCacheKey(cycles[j].text) = generateCacheKey(cycles'[Len(cycles')].text))
                 => ReturnsAtOnce(transcriptHistory[e].text)]_vars

====
